---- MODULE Spec2Model ----
(***************************************************************************)
(* The ETL upsert-and-aggregation pipeline of api_data_pipeline.py:        *)
(* lambda_handler drives every endpoint of API_CONFIG page by page, hands  *)
(* each page to save_to_db_dynamic, and ends with update_summary_table.    *)
(* The database is modelled as committed tables plus the one transaction   *)
(* the connection may have open; a concurrent reader sees committed data.  *)
(***************************************************************************)
EXTENDS Integers, Sequences, FiniteSets, TLC

(***************************************************************************)
(* Bounds of the model.                                                    *)
(***************************************************************************)
\* Page size requested from the upstream: num_of_rows = 1000 at
\* api_data_pipeline.py:397.  Pages are enumerated record by record, so the
\* model runs with a small page size; every formula below is stated
\* relative to num_of_rows.
num_of_rows == 2
\* How many entries of API_CONFIG (from the start of the list) a run visits.
MaxEndpoints == 2
\* The upstream holds at most MaxPageNo pages per endpoint: a request for
\* page MaxPageNo is never answered with a full page.
MaxPageNo == 2

(***************************************************************************)
(* Python / JSON values.                                                   *)
(***************************************************************************)
\* Python None / JSON null / SQL NULL as a field value of a record or row.
None == "<None>"

\* A variant that ignores the default: a missing field gives None.
GetOrNone(item, k, default) == IF k \in DOMAIN item THEN item[k] ELSE None

\* dict.get(k, default) on a RawRecord (a function from field names to strings).
Get(item, k, default) == IF k \in DOMAIN item THEN item[k] ELSE default

\* A variant in which only the empty string is falsy.
FalsyEmptyOnly(v) == v = ""

\* Python truthiness of a field value: None and "" are falsy.
Falsy(v) == v = None \/ v = ""

\* str(v): str(None) is the four letters "None".
Str(v) == IF v = None THEN "None" ELSE v

\* JSON values of the response envelope, tagged with their Python type.
JNull == [t |-> "null"]
JObj(f) == [t |-> "dict", v |-> f]
JArr(s) == [t |-> "list", v |-> s]
JStr(s) == [t |-> "str", v |-> s]

\* `not x` for an envelope value.
JFalsy(j) ==
  \/ j.t = "null"
  \/ j.t = "dict" /\ DOMAIN j.v = {}
  \/ j.t = "list" /\ Len(j.v) = 0
  \/ j.t = "str" /\ j.v = ""

\* d.get(k) on an envelope dict.
JGet(d, k) == IF k \in DOMAIN d.v THEN d.v[k] ELSE JNull

\* d.get(k, {}) on an envelope dict.
JGetOrEmpty(d, k) == IF k \in DOMAIN d.v THEN d.v[k] ELSE JObj(<<>>)

(***************************************************************************)
(* API_CONFIG, as in the source; a mapping is the ordered list of          *)
(* <<db column, API field>> pairs.                                         *)
(***************************************************************************)
API_CONFIG ==
  <<
    [ endpoint |-> "getWksnElvtr",
      table |-> "subway_elevator",
      pk |-> "generated_id",
      pk_gen_keys |-> <<"stnCd", "lineNm", "fcltNm">>,
      mapping |->
      << <<"generated_id", "generated_id">>,
         <<"mng_no", "mngNo">>,
         <<"stn_cd", "stnCd">>,
         <<"stn_nm", "stnNm">>,
         <<"line_nm", "lineNm">>,
         <<"fclt_nm", "fcltNm">>,
         <<"oprtng_situ", "oprtngSitu">>,
         <<"dtl_pstn", "dtlPstn">>,
         <<"pscp_nope", "pscpNope">>,
         <<"crtr_ymd", "crtrYmd">>,
         <<"elvtr_sn", "elvtrSn">> >> ],
    [ endpoint |-> "getWksnRstrm",
      table |-> "subway_toilet",
      pk |-> "generated_id",
      pk_gen_keys |-> <<"stnCd", "lineNm", "fcltNm">>,
      mapping |->
      << <<"generated_id", "generated_id">>,
         <<"mng_no", "mngNo">>,
         <<"stn_cd", "stnCd">>,
         <<"stn_nm", "stnNm">>,
         <<"line_nm", "lineNm">>,
         <<"fclt_nm", "fcltNm">>,
         <<"whlchr_acs_yn", "whlchrAcsPsbltyYn">>,
         <<"gate_inout", "gateInoutSe">>,
         <<"rstrm_info", "rstrmInfo">>,
         <<"stn_flr", "stnFlr">>,
         <<"crtr_ymd", "crtrYmd">> >> ],
    [ endpoint |-> "getWksnWhcllift",
      table |-> "subway_lift",
      pk |-> "generated_id",
      pk_gen_keys |-> <<"stnCd", "lineNm", "fcltNm">>,
      mapping |->
      << <<"generated_id", "generated_id">>,
         <<"mng_no", "mngNo">>,
         <<"stn_cd", "stnCd">>,
         <<"stn_nm", "stnNm">>,
         <<"line_nm", "lineNm">>,
         <<"fclt_nm", "fcltNm">>,
         <<"oprtng_situ", "oprtngSitu">>,
         <<"limit_wht", "limitWht">>,
         <<"bgng_flr_dtl", "bgngFlrDtlPstn">>,
         <<"end_flr_dtl", "endFlrDtlPstn">>,
         <<"crtr_ymd", "crtrYmd">>,
         <<"vcnt_entrc_no", "vcntEntrcNo">> >> ],
    [ endpoint |-> "getWksnMvnwlk",
      table |-> "subway_movingwalk",
      pk |-> "generated_id",
      pk_gen_keys |-> <<"stnCd", "lineNm", "fcltNm">>,
      mapping |->
      << <<"generated_id", "generated_id">>,
         <<"mng_no", "mngNo">>,
         <<"stn_cd", "stnCd">>,
         <<"stn_nm", "stnNm">>,
         <<"line_nm", "lineNm">>,
         <<"fclt_nm", "fcltNm">>,
         <<"oprtng_situ", "oprtngSitu">>,
         <<"crtr_ymd", "crtrYmd">>,
         <<"vcnt_entrc_no", "vcntEntrcNo">> >> ],
    [ endpoint |-> "getWksnWhclCharge",
      table |-> "subway_charger",
      pk |-> "generated_id",
      pk_gen_keys |-> <<"stnCd", "lineNm", "fcltNm">>,
      mapping |->
      << <<"generated_id", "generated_id">>,
         <<"mng_no", "mngNo">>,
         <<"stn_cd", "stnCd">>,
         <<"stn_nm", "stnNm">>,
         <<"line_nm", "lineNm">>,
         <<"fclt_nm", "fcltNm">>,
         <<"dtl_pstn", "dtlPstn">>,
         <<"cnnctr_se", "cnnctrSe">>,
         <<"elctc_fac_cnt", "elctcFacCnt">>,
         <<"utztn_crg", "utztnCrg">>,
         <<"oper_tel", "operInstTelno">>,
         <<"crtr_ymd", "crtrYmd">> >> ],
    [ endpoint |-> "getWksnSlng",
      table |-> "subway_sign_phone",
      pk |-> "generated_id",
      pk_gen_keys |-> <<"stnCd", "lineNm", "fcltNm">>,
      mapping |->
      << <<"generated_id", "generated_id">>,
         <<"stn_cd", "stnCd">>,
         <<"stn_nm", "stnNm">>,
         <<"line_nm", "lineNm">>,
         <<"fclt_nm", "fcltNm">>,
         <<"dtl_pstn", "dtlPstn">>,
         <<"vcnt_entrc_no", "vcntEntrcNo">>,
         <<"stn_flr", "stnFlr">>,
         <<"utztn_hr", "utztnHr">>,
         <<"crtr_ymd", "crtrYmd">> >> ],
    [ endpoint |-> "getWksnSafePlfm",
      table |-> "subway_safe_platform",
      pk |-> "generated_id",
      pk_gen_keys |-> <<"stnCd", "lineNm", "fcltNm">>,
      mapping |->
      << <<"generated_id", "generated_id">>,
         <<"stn_cd", "stnCd">>,
         <<"stn_nm", "stnNm">>,
         <<"line_nm", "lineNm">>,
         <<"fclt_nm", "fcltNm">>,
         <<"sfty_scf_yn", "sftyScfldEn">>,
         <<"mngr_tel", "mngrTelno">>,
         <<"crtr_ymd", "crtrYmd">> >> ],
    [ endpoint |-> "getWksnHelper",
      table |-> "subway_helper",
      pk |-> "generated_id",
      pk_gen_keys |-> <<"stnCd", "lineNm", "stnNm">>,
      mapping |->
      << <<"generated_id", "generated_id">>,
         <<"stn_cd", "stnCd">>,
         <<"stn_nm", "stnNm">>,
         <<"line_nm", "lineNm">>,
         <<"helper_tel", "trffcWksnHlprTelno">>,
         <<"crtr_ymd", "crtrYmd">> >> ],
    [ endpoint |-> "getWksnEsctr",
      table |-> "subway_escalator",
      pk |-> "generated_id",
      pk_gen_keys |-> <<"stnCd", "lineNm", "fcltNm">>,
      mapping |->
      << <<"generated_id", "generated_id">>,
         <<"mng_no", "mngNo">>,
         <<"stn_cd", "stnCd">>,
         <<"stn_nm", "stnNm">>,
         <<"line_nm", "lineNm">>,
         <<"fclt_nm", "fcltNm">>,
         <<"oprtng_situ", "oprtngSitu">>,
         <<"upbdnb_se", "upbdnbSe">>,
         <<"bgng_flr_dtl", "bgngFlrDtlPstn">>,
         <<"end_flr_dtl", "endFlrDtlPstn">>,
         <<"vcnt_entrc_no", "vcntEntrcNo">>,
         <<"crtr_ymd", "crtrYmd">> >> ]
  >>

\* The endpoints a run iterates (for config in API_CONFIG).
NumEndpoints == IF MaxEndpoints < Len(API_CONFIG) THEN MaxEndpoints ELSE Len(API_CONFIG)

\* mapping[col]
MappingGet(mapping, col) ==
  LET i == CHOOSE j \in 1..Len(mapping) : mapping[j][1] = col IN mapping[i][2]

\* list(mapping.keys())
MappingKeys(mapping) == [i \in 1..Len(mapping) |-> mapping[i][1]]

TableNames == {API_CONFIG[i].table : i \in 1..Len(API_CONFIG)}

(***************************************************************************)
(* generate_unique_id                                                      *)
(***************************************************************************)
\* A lone surrogate code point, which json.loads accepts in a string
\* ("\ud800") and str() passes on, written as a marker here.
LoneSurrogate == "<ud800>"

\* hashlib.md5(...).hexdigest(): a non-empty string, taken as collision-free.
md5(s) == "md5(" \o s \o ")"

RECURSIVE JoinFrom(_, _, _)
\* "".join([str(item.get(k, "")) for k in keys]), from position i on
JoinFrom(item, keys, i) ==
  IF i > Len(keys) THEN ""
  ELSE Str(Get(item, keys[i], "")) \o JoinFrom(item, keys, i + 1)

\* A variant that also hashes the id a previous call left in the item.
generate_unique_id_rehash(item, keys) ==
  md5(JoinFrom(item, keys \o <<"generated_id">>, 1))

\* unique_str.encode("utf-8") raises UnicodeEncodeError on a lone surrogate.
Encodable(s) ==
  \A i \in 1..(Len(s) - Len(LoneSurrogate) + 1) :
    SubSeq(s, i, i + Len(LoneSurrogate) - 1) # LoneSurrogate

\* A variant that gives no id to a record none of whose key fields has a value.
generate_unique_id_empty_none(item, keys) ==
  LET unique_str == JoinFrom(item, keys, 1)
  IN IF Encodable(unique_str) /\ unique_str # "" THEN md5(unique_str) ELSE None

\* Lines 206-211: the digest, or None when anything inside the try raised.
generate_unique_id(item, keys) ==
  LET unique_str == JoinFrom(item, keys, 1)
  IN IF Encodable(unique_str) THEN md5(unique_str) ELSE None

(***************************************************************************)
(* parse_api_response: every exception inside is caught and yields [].     *)
(***************************************************************************)
\* The outcome of a try body: an exception, or the value returned.
Raised == [raised |-> TRUE, value |-> <<>>]
Returned(v) == [raised |-> FALSE, value |-> v]

\* A variant that passes a list through and has no branch for a single object.
parse_try_list_only(json_data) ==
  IF json_data.t # "dict" THEN Raised
  ELSE
  LET top == JGet(json_data, "body")
      resp == JGetOrEmpty(json_data, "response")
  IN
  IF JFalsy(top) /\ resp.t # "dict" THEN Raised
  ELSE
  LET body == IF JFalsy(top) THEN JGet(resp, "body") ELSE top IN
  IF body.t # "dict" THEN Raised
  ELSE
  LET items == JGet(body, "items") IN
  IF JFalsy(items) THEN Returned(<<>>)
  ELSE IF items.t # "dict" THEN Raised
  ELSE
  LET item_data == JGet(items, "item") IN
  IF JFalsy(item_data) THEN Returned(<<>>)
  ELSE IF item_data.t = "list" THEN Returned(item_data.v)
  ELSE Returned(<<>>)

\* Lines 215-231, the body of the try: .get on a value that is no dict raises
\* AttributeError.
parse_try(json_data) ==
  IF json_data.t # "dict" THEN Raised            \* json_data.get raises
  ELSE
  LET top == JGet(json_data, "body")
      resp == JGetOrEmpty(json_data, "response")
  IN
  IF JFalsy(top) /\ resp.t # "dict" THEN Raised  \* (...).get("body") raises
  ELSE
  LET body == IF JFalsy(top) THEN JGet(resp, "body") ELSE top IN
  IF body.t # "dict" THEN Raised                 \* body.get raises
  ELSE
  LET items == JGet(body, "items") IN
  IF JFalsy(items) THEN Returned(<<>>)
  ELSE IF items.t # "dict" THEN Raised           \* items.get raises
  ELSE
  LET item_data == JGet(items, "item") IN
  IF JFalsy(item_data) THEN Returned(<<>>)
  ELSE IF item_data.t = "dict" THEN Returned(<<item_data.v>>)
  ELSE IF item_data.t = "list" THEN Returned(item_data.v)
  ELSE Returned(<<>>)

\* Lines 214-234: the except branch of lines 232-234 turns every exception of
\* the try body into the empty list.
parse_api_response(json_data) ==
  LET r == parse_try(json_data) IN
  IF r.raised THEN <<>> ELSE r.value

(***************************************************************************)
(* The database behind one psycopg2 connection: the committed tables, and  *)
(* the transaction the connection has open (psycopg2 opens it at the first *)
(* execute and ends it at commit() or rollback()).                         *)
(***************************************************************************)
NoTx == [open |-> FALSE]

\* The implicit BEGIN before the first statement of a transaction.
begin(c) ==
  IF c.tx.open THEN c
  ELSE [c EXCEPT !.tx = [open |-> TRUE, tables |-> c.tables, summary |-> c.summary]]

\* A variant that leaves the transaction open, its rows not yet durable.
commit_deferred(c) == c

\* conn.commit()
commit(c) ==
  IF c.tx.open
  THEN [tables |-> c.tx.tables, summary |-> c.tx.summary, tx |-> NoTx]
  ELSE c

\* conn.rollback()
rollback(c) == [c EXCEPT !.tx = NoTx]

\* Position of a column in db_columns.
ColIndex(db_columns, col) == CHOOSE i \in 1..Len(db_columns) : db_columns[i] = col

\* A variant with ON CONFLICT (pk) DO NOTHING: an existing row is kept as it is.
execute_insert_ignore(c0, table_name, pk_column, db_columns, row_values, now_) ==
  LET c == begin(c0)
      T == c.tx.tables[table_name]
      cols == {db_columns[i] : i \in 1..Len(db_columns)}
      excluded == [col \in cols |-> row_values[ColIndex(db_columns, col)]]
      k == excluded[pk_column]
      newRow == [col \in cols \cup {"updated_at"} |->
                   IF col = "updated_at" THEN 0 ELSE excluded[col]]
      T2 == [kk \in DOMAIN T \cup {k} |-> IF kk \in DOMAIN T THEN T[kk] ELSE newRow]
  IN [c EXCEPT !.tx.tables[table_name] = T2]

\* A variant that puts the row into every facility table.
execute_upsert_everywhere(c0, table_name, pk_column, db_columns, row_values, now_) ==
  LET c == begin(c0)
      cols == {db_columns[i] : i \in 1..Len(db_columns)}
      excluded == [col \in cols |-> row_values[ColIndex(db_columns, col)]]
      k == excluded[pk_column]
      newRow == [col \in cols \cup {"updated_at"} |->
                   IF col = "updated_at" THEN 0 ELSE excluded[col]]
  IN [c EXCEPT !.tx.tables =
        [t \in DOMAIN @ |->
           [kk \in DOMAIN @[t] \cup {k} |-> IF kk = k THEN newRow ELSE @[t][kk]]]]

\* A variant with col = COALESCE(EXCLUDED.col, t.col): a NULL that comes in
\* leaves the stored value.
execute_upsert_coalesce(c0, table_name, pk_column, db_columns, row_values, now_) ==
  LET c == begin(c0)
      T == c.tx.tables[table_name]
      cols == {db_columns[i] : i \in 1..Len(db_columns)}
      excluded == [col \in cols |-> row_values[ColIndex(db_columns, col)]]
      k == excluded[pk_column]
      newRow ==
        IF k \in DOMAIN T
        THEN [col \in DOMAIN T[k] |->
                IF col = "updated_at" THEN now_
                ELSE IF col \in cols /\ col # pk_column /\ excluded[col] # None
                THEN excluded[col]
                ELSE T[k][col]]
        ELSE [col \in cols \cup {"updated_at"} |->
                IF col = "updated_at" THEN 0 ELSE excluded[col]]
      T2 == [kk \in DOMAIN T \cup {k} |-> IF kk = k THEN newRow ELSE T[kk]]
  IN [c EXCEPT !.tx.tables[table_name] = T2]

\* One execution of the statement built at lines 250-257 with one tuple of
\* values_batch:  INSERT INTO t (cols) VALUES (...) ON CONFLICT (pk)
\* DO UPDATE SET col = EXCLUDED.col (every col but pk), updated_at = NOW().
\* A fresh key inserts the row, updated_at left to the column default (0 here);
\* an existing key has its mapped non-key columns overwritten and updated_at
\* set to the transaction's NOW().
execute_upsert(c0, table_name, pk_column, db_columns, row_values, now_) ==
  LET c == begin(c0)
      T == c.tx.tables[table_name]
      cols == {db_columns[i] : i \in 1..Len(db_columns)}
      excluded == [col \in cols |-> row_values[ColIndex(db_columns, col)]]
      k == excluded[pk_column]
      newRow ==
        IF k \in DOMAIN T
        THEN [col \in DOMAIN T[k] |->
                IF col = "updated_at" THEN now_
                ELSE IF col \in cols /\ col # pk_column THEN excluded[col]
                ELSE T[k][col]]
        ELSE [col \in cols \cup {"updated_at"} |->
                IF col = "updated_at" THEN 0 ELSE excluded[col]]
      T2 == [kk \in DOMAIN T \cup {k} |-> IF kk = k THEN newRow ELSE T[kk]]
  IN [c EXCEPT !.tx.tables[table_name] = T2]

RECURSIVE executemany(_, _, _, _, _, _, _)
\* cursor.executemany(sql, values_batch): the statement once per tuple, in
\* order; n is how many tuples have been executed.
executemany(c, table_name, pk_column, db_columns, values_batch, n, now_) ==
  IF n = 0 THEN begin(c)
  ELSE execute_upsert(
         executemany(c, table_name, pk_column, db_columns, values_batch, n - 1, now_),
         table_name, pk_column, db_columns, values_batch[n], now_)

(***************************************************************************)
(* save_to_db_dynamic                                                      *)
(***************************************************************************)
\* item["generated_id"] = generated_id
SetField(item, k, val) ==
  [f \in DOMAIN item \cup {k} |-> IF f = k THEN val ELSE item[f]]

\* Lines 261-263: the item as the loop leaves it (the caller's dict is mutated).
InjectId(item, pk_gen_keys) ==
  IF Len(pk_gen_keys) > 0
  THEN SetField(item, "generated_id", generate_unique_id(item, pk_gen_keys))
  ELSE item

\* Lines 269-274: the tuple of one item, in db_columns order.
RowValues(item, mapping) ==
  [i \in 1..Len(mapping) |-> Get(item, mapping[i][2], None)]

RECURSIVE ValuesBatchBreaks(_, _, _, _)
\* A variant in which an item without a key ends the loop (break for continue).
ValuesBatchBreaks(items, pk_column, mapping, i) ==
  IF i > Len(items) THEN <<>>
  ELSE IF Falsy(Get(items[i], MappingGet(mapping, pk_column), None))
       THEN <<>>
       ELSE <<RowValues(items[i], mapping)>> \o ValuesBatchBreaks(items, pk_column, mapping, i + 1)

RECURSIVE ValuesBatch(_, _, _, _)
\* Lines 259-274: the tuples of the items from position i on, an item with a
\* falsy primary-key value left out.
ValuesBatch(items, pk_column, mapping, i) ==
  IF i > Len(items) THEN <<>>
  ELSE IF Falsy(Get(items[i], MappingGet(mapping, pk_column), None))
       THEN ValuesBatch(items, pk_column, mapping, i + 1)
       ELSE <<RowValues(items[i], mapping)>> \o ValuesBatch(items, pk_column, mapping, i + 1)

\* The primary-key values of the tuples a page puts in values_batch.
BatchKeys(data_list, cfg) ==
  LET items == [i \in 1..Len(data_list) |-> InjectId(data_list[i], cfg.pk_gen_keys)]
      values_batch == ValuesBatch(items, cfg.pk, cfg.mapping, 1)
      pk_i == ColIndex(MappingKeys(cfg.mapping), cfg.pk)
  IN {values_batch[i][pk_i] : i \in 1..Len(values_batch)}

\* A variant that keeps what the batch had executed.
OnWriteErrorCommits(c) == commit(c)

\* A variant without the conn.rollback(): the failed transaction stays open.
OnWriteErrorLeavesOpen(c) == c

\* What the except branch of lines 284-287 does to the connection.
OnWriteError(c) == rollback(c)

\* fault = 0: no database error.  fault = k in 1..Len(values_batch): the k-th
\* statement of executemany raises, the k-1 before it having executed.
\* fault = Len(values_batch) + 1: conn.commit() raises.
\* The result is the connection state, the returned count and data_list as the
\* call leaves it.
save_to_db_dynamic(c, table_name, pk_column, mapping, data_list, pk_gen_keys, fault, now_) ==
  IF Len(data_list) = 0 THEN [db |-> c, count |-> 0, data_list |-> data_list]
  ELSE
  LET db_columns == MappingKeys(mapping)
      items == [i \in 1..Len(data_list) |-> InjectId(data_list[i], pk_gen_keys)]
      values_batch == ValuesBatch(items, pk_column, mapping, 1)
      n == Len(values_batch)
  IN
  IF n = 0 THEN [db |-> c, count |-> 0, data_list |-> items]
  ELSE IF fault = 0
  THEN [db |-> commit(executemany(c, table_name, pk_column, db_columns, values_batch, n, now_)),
        count |-> n, data_list |-> items]
  ELSE
  LET done == IF fault > n THEN n ELSE fault - 1 IN
       [db |-> OnWriteError(executemany(c, table_name, pk_column, db_columns, values_batch, done, now_)),
        count |-> 0, data_list |-> items]

(***************************************************************************)
(* update_summary_table: the statements it executes.                       *)
(***************************************************************************)
\* The station-suffix glyph of the REPLACE calls (one character; written Y here,
\* station names of the model being lower-case).
YEOK == "Y"

RECURSIVE LTrim(_)
LTrim(s) ==
  IF Len(s) > 0 /\ SubSeq(s, 1, 1) = " " THEN LTrim(SubSeq(s, 2, Len(s))) ELSE s

RECURSIVE RTrim(_)
RTrim(s) ==
  IF Len(s) > 0 /\ SubSeq(s, Len(s), Len(s)) = " "
  THEN RTrim(SubSeq(s, 1, Len(s) - 1)) ELSE s

\* SQL TRIM(s): leading and trailing spaces removed.
TRIM(s) == RTrim(LTrim(s))

RECURSIVE REPLACE(_, _)
\* SQL REPLACE(s, g, ''): every occurrence of the one-character string g removed.
REPLACE(s, g) ==
  IF Len(s) = 0 THEN ""
  ELSE IF SubSeq(s, 1, 1) = g THEN REPLACE(SubSeq(s, 2, Len(s)), g)
  ELSE SubSeq(s, 1, 1) \o REPLACE(SubSeq(s, 2, Len(s)), g)

\* A variant of the join condition: the names compared as they are.
JoinOnExact(name, stn_nm) ==
  /\ name # None
  /\ stn_nm # None
  /\ name = stn_nm

\* The join condition of lines 360-368:
\*   REPLACE(TRIM(s.name), '역', '') = REPLACE(TRIM(x.stn_nm), '역', '')
\* which is not true when either side is NULL.
JoinOn(name, stn_nm) ==
  /\ name # None
  /\ stn_nm # None
  /\ REPLACE(TRIM(name), YEOK) = REPLACE(TRIM(stn_nm), YEOK)

\* The tables whose CTE carries WHERE oprtng_situ IS DISTINCT FROM 'S'
\* (lines 314-329).
StatusTables ==
  {"subway_elevator", "subway_escalator", "subway_lift", "subway_movingwalk"}

\* A variant with WHERE oprtng_situ <> 'S', which is not true of NULL.
CountableNotNull(table_name, row) ==
  IF table_name \in StatusTables
  THEN row["oprtng_situ"] # "S" /\ row["oprtng_situ"] # None
  ELSE TRUE

\* The rows a CTE counts.
Countable(table_name, row) ==
  IF table_name \in StatusTables THEN row["oprtng_situ"] # "S" ELSE TRUE

\* A CTE cnt_x: SELECT stn_nm, COUNT(*) AS cnt FROM t [WHERE ...] GROUP BY stn_nm.
CntCTE(tables, table_name) ==
  LET T == tables[table_name]
      keys == {k \in DOMAIN T : Countable(table_name, T[k])}
  IN { [matched |-> TRUE, stn_nm |-> n,
        cnt |-> Cardinality({k \in keys : T[k]["stn_nm"] = n})]
       : n \in {T[k]["stn_nm"] : k \in keys} }

\* The side of a LEFT JOIN that matched nothing: all its columns NULL.
Unmatched == [matched |-> FALSE]

\* The CTEs in the order they are joined (lines 360-368), with the count column
\* each fills.
JoinOrder ==
  << <<"subway_charger", "charger_count">>,
     <<"subway_elevator", "elevator_count">>,
     <<"subway_escalator", "escalator_count">>,
     <<"subway_lift", "lift_count">>,
     <<"subway_movingwalk", "movingwalk_count">>,
     <<"subway_safe_platform", "safe_platform_count">>,
     <<"subway_sign_phone", "sign_phone_count">>,
     <<"subway_toilet", "toilet_count">>,
     <<"subway_helper", "helper_count">> >>

CountColumns == {JoinOrder[i][2] : i \in 1..Len(JoinOrder)}

\* One LEFT JOIN: every row of the left side with each group of the CTE it
\* matches, or once with NULLs when it matches none.
LeftJoin(left, cte) ==
  UNION { LET m == {grp \in cte : JoinOn(r.s.name, grp.stn_nm)}
          IN { [s |-> r.s, g |-> Append(r.g, grp)]
               : grp \in (IF m = {} THEN {Unmatched} ELSE m) }
          : r \in left }

RECURSIVE Joined(_, _, _)
\* FROM subway_station s LEFT JOIN ... : the joined rows after the first n joins.
\* A joined row is the station row with, per joined CTE, the group it met.
Joined(tables, stations, n) ==
  IF n = 0 THEN { [s |-> st, g |-> <<>>] : st \in stations }
  ELSE LeftJoin(Joined(tables, stations, n - 1), CntCTE(tables, JoinOrder[n][1]))

RECURSIVE SumCnt(_, _)
\* COALESCE(SUM(x.cnt), 0) over a set of joined rows, x the i-th joined CTE.
SumCnt(rowset, i) ==
  IF rowset = {} THEN 0
  ELSE LET r == CHOOSE r \in rowset : TRUE
       IN (IF r.g[i].matched THEN r.g[i].cnt ELSE 0) + SumCnt(rowset \ {r}, i)

\* One row of the SELECT list (lines 339-356) for the joined rows of one s.name.
SummaryRow(nm, group) ==
  LET counts == [i \in 1..Len(JoinOrder) |-> SumCnt(group, i)]
      ColOf(col) == CHOOSE i \in 1..Len(JoinOrder) : JoinOrder[i][2] = col
  IN [f \in {"station_name", "station_cd_list", "total_facility_count"} \cup CountColumns |->
        IF f = "station_name" THEN nm
        ELSE IF f = "station_cd_list" THEN {r.s.station_cd : r \in group}
        ELSE IF f = "total_facility_count"
        THEN counts[1] + counts[2] + counts[3] + counts[4] + counts[5]
             + counts[6] + counts[7] + counts[8] + counts[9]
        ELSE counts[ColOf(f)]]

\* The rows the SELECT of lines 338-370 produces: one per s.name (GROUP BY).
AggregateSelect(tables, stations) ==
  LET joined == Joined(tables, stations, Len(JoinOrder))
  IN { SummaryRow(nm, {r \in joined : r.s.name = nm}) : nm \in {st.name : st \in stations} }

\* A variant in which the TRUNCATE cascades to the facility tables.
execute_truncate_cascade(c0) ==
  LET c == begin(c0)
  IN [c EXCEPT !.tx.summary = {}, !.tx.tables = [t \in TableNames |-> <<>>]]

\* A variant in which the TRUNCATE removes nothing.
execute_truncate_skipped(c0) == begin(c0)

\* A variant in which the TRUNCATE is committed on its own.
execute_truncate_autocommit(c0) ==
  LET c == begin(c0) IN commit([c EXCEPT !.tx.summary = {}])

\* cursor.execute("TRUNCATE TABLE subway_facility_total;")
execute_truncate(c0) ==
  LET c == begin(c0) IN [c EXCEPT !.tx.summary = {}]

\* cursor.execute(sql) of line 372: the aggregate INSERT.
execute_aggregate_insert(c0, stations) ==
  LET c == begin(c0)
  IN [c EXCEPT !.tx.summary = c.tx.summary \cup AggregateSelect(c.tx.tables, stations)]

\* A variant that keeps what the transaction had executed.
OnSummaryErrorCommits(c) == commit(c)

\* What the except branch of lines 376-378 does to the connection.
OnSummaryError(c) == rollback(c)

\* What a concurrent reader's SELECT on subway_facility_total returns: the
\* committed rows, never those of the transaction still open.
visible_summary(c) == c.summary

\* A variant that reports no row whatever was written.
ReturnValueZero(total) == [statusCode |-> 200, body |-> 0]

\* The value lambda_handler returns (lines 462-467); the body is the message
\* built around the total, which is all that varies in it.
ReturnValue(total) == [statusCode |-> 200, body |-> total]

\* Variants of the test: on the count written, and with <=.
IsLastPageByCount(rows_, count) == count < num_of_rows
IsLastPageInclusive(rows_, count) == Len(rows_) <= num_of_rows

\* The page-size test of line 443, on the page fetched (count is what the
\* writer returned for it).
IsLastPage(rows_, count) == Len(rows_) < num_of_rows

(***************************************************************************)
(* Inputs: upstream records and pages, prior table contents, stations.     *)
(***************************************************************************)
recA1 ==
  [stnCd |-> "1", lineNm |-> "2", fcltNm |-> "e", stnNm |-> "seoulY",
   oprtngSitu |-> "M", mngNo |-> "x"]
\* The same key fields as recA1, other values changed or missing.
recA2 ==
  [stnCd |-> "1", lineNm |-> "2", fcltNm |-> "e", stnNm |-> "seoul",
   oprtngSitu |-> "S"]
recB ==
  [stnCd |-> "3", lineNm |-> "2", fcltNm |-> "e", stnNm |-> " seoulY",
   oprtngSitu |-> "M", mngNo |-> "x"]

\* A record whose station code holds a lone surrogate: its key cannot be
\* generated.
recBad ==
  [stnCd |-> LoneSurrogate, lineNm |-> "2", fcltNm |-> "e", stnNm |-> "seoulY",
   oprtngSitu |-> "M", mngNo |-> "x"]

\* Records that carry none of the key fields of any endpoint.
recNoKey1 == [stnNm |-> "seoulY", oprtngSitu |-> "M"]
recNoKey2 == [stnNm |-> "gangnam", mngNo |-> "y"]

\* A page of exactly num_of_rows records: seed repeated cyclically.
Fill(seed) == [i \in 1..num_of_rows |-> seed[((i - 1) % Len(seed)) + 1]]

\* The pages the upstream serves in a run: one shorter than num_of_rows, one full.
ShortPages == { <<recB>> }
FullPages == { Fill(<<recA1, recA2>>) }

\* The pages handed to the writer when it is exercised on its own.
WriterPages ==
  { <<recA1>>, <<recB>>, <<recA1, recA2>>, <<recA2, recA1>>, <<recA1, recB>>,
    <<recB, recA2, recA1>>, <<recBad>>, <<recA1, recBad, recB>>,
    <<recNoKey1, recNoKey2>> }

\* The rows of subway_station (name, station_cd; one row per line of a station).
subway_station ==
  { [name |-> "seoulY", station_cd |-> "S1", line |-> "1"],
    [name |-> "seoulY", station_cd |-> "S4", line |-> "4"],
    [name |-> "gangnam", station_cd |-> "G2", line |-> "2"] }

EmptyTables == [t \in TableNames |-> <<>>]
EmptyDb == [tables |-> EmptyTables, summary |-> {}, tx |-> NoTx]

\* A database as an earlier run left it: one page written to the first table
\* and the summary recomputed.
PriorDb ==
  LET cfg == API_CONFIG[1]
      w == save_to_db_dynamic(EmptyDb, cfg.table, cfg.pk, cfg.mapping,
                              <<recB>>, cfg.pk_gen_keys, 0, 0)
  IN commit(execute_aggregate_insert(execute_truncate(w.db), subway_station))

\* The database a run starts from.
InitialDbs == {PriorDb}

\* The databases the writer is exercised on: empty, the earlier run's, and one
\* whose first table already holds recA2's key with other values.
WriterDbs ==
  { EmptyDb, PriorDb,
    save_to_db_dynamic(PriorDb, API_CONFIG[1].table, API_CONFIG[1].pk,
                       API_CONFIG[1].mapping, <<recA2>>,
                       API_CONFIG[1].pk_gen_keys, 0, 0).db }

(***************************************************************************)
(* What the upstream may answer to one request.                            *)
(***************************************************************************)
Header(code) == JObj([resultCode |-> JStr(code), resultMsg |-> JStr("msg")])
BodyOf(item) == JObj([items |-> JObj([item |-> item])])
\* The envelope with header and body at top level, or nested under "response".
TopLevel(h, b) == JObj([header |-> h, body |-> b])
Nested(h, b) == JObj([response |-> JObj([header |-> h, body |-> b])])

\* Pages the upstream may serve as page page_no_: a full page only while more
\* pages exist.
PagesAt(page_no_) ==
  {<<>>} \cup ShortPages \cup (IF page_no_ < MaxPageNo THEN FullPages ELSE {})

\* The JSON body of a response, by its description: where header and body sit
\* ("top", "nested"), or what is wrong with it; whether item is an array or the
\* bare object (the upstream sends the latter for some pages of one record).
Envelope(d) ==
  LET item == IF d.item = "object" /\ Len(d.page) = 1
              THEN JObj(d.page[1]) ELSE JArr(d.page)
  IN
  CASE d.shape = "top" -> TopLevel(Header("00"), BodyOf(item))
    [] d.shape = "nested" -> Nested(Header("00"), BodyOf(item))
    [] d.shape = "items_empty_string" ->
         TopLevel(Header("00"), JObj([items |-> JStr("")]))
    [] d.shape = "no_body" -> JObj([header |-> Header("00")])
    [] d.shape = "result_code_99" -> TopLevel(Header("99"), BodyOf(item))
    [] d.shape = "no_header" -> JObj([body |-> BodyOf(item)])

GoodShapes == {"top", "nested"}
EmptyShapes == {"items_empty_string", "no_body"}
BadShapes == {"result_code_99", "no_header"}

\* What requests.get may do: raise (timeout, network), or return a response
\* with a status, a body that parses as JSON or not, and the JSON value.
Responses(page_no_) ==
  { [kind |-> "raise", status_code |-> 0, json |-> FALSE, shape |-> "", item |-> "", page |-> <<>>],
    [kind |-> "http", status_code |-> 500, json |-> FALSE, shape |-> "", item |-> "", page |-> <<>>],
    [kind |-> "http", status_code |-> 200, json |-> FALSE, shape |-> "", item |-> "", page |-> <<>>] }
  \cup { [kind |-> "http", status_code |-> 200, json |-> TRUE, shape |-> sh, item |-> it, page |-> pg]
         : sh \in GoodShapes, it \in {"array", "object"}, pg \in PagesAt(page_no_) }
  \cup { [kind |-> "http", status_code |-> 200, json |-> TRUE, shape |-> sh, item |-> "array", page |-> <<recA1>>]
         : sh \in EmptyShapes \cup BadShapes }

\* A variant that does not look at the header.
PageDeliveredAnyHeader(resp) ==
  /\ resp.kind = "http"
  /\ resp.status_code = 200
  /\ resp.json

\* Lines 423-430: TRUE iff the loop goes on to parse the page.  A raw_data or
\* header that is no dict raises inside the try and ends the loop as well.
HeaderOk(raw_data) ==
  IF raw_data.t # "dict" THEN FALSE
  ELSE
  LET h1 == JGet(raw_data, "header")
      resp == JGetOrEmpty(raw_data, "response")
  IN
  IF JFalsy(h1) /\ resp.t # "dict" THEN FALSE
  ELSE
  LET header == IF JFalsy(h1) THEN JGetOrEmpty(resp, "header") ELSE h1 IN
  IF header.t # "dict" THEN FALSE
  ELSE JGet(header, "resultCode") = JStr("00")

\* The response passes lines 413-430.
PageDelivered(resp) ==
  /\ resp.kind = "http"
  /\ resp.status_code = 200
  /\ resp.json
  /\ HeaderOk(Envelope(resp))

(***************************************************************************)
(* State.                                                                  *)
(***************************************************************************)
VARIABLES
  pc,                   \* where lambda_handler stands
  BASE_URL,             \* os.environ.get("BASE_URL"): a string, or None when unset
  conn,                 \* "none" (conn = None), "open", "closed"
  db,                   \* the database: committed tables and the open transaction
  now,                  \* NOW() of the next transaction
  config_i,             \* index of `config` in API_CONFIG
  page_no,
  rows,                 \* the parsed page handed to the writer
  total_processed_all,
  ret,                  \* the value returned
  \* history
  db0,                  \* the database at the start of the run
  requests,             \* the requests issued, in order: <<config_i, page_no>>
  served,               \* per endpoint, the sizes of the pages delivered
  http_fail_first,      \* endpoints whose first page came back with status # 200
  undelivered,          \* endpoints with a request that delivered no page
  summary_calls,        \* invocations of update_summary_table
  summary_fault,        \* where update_summary_table raised: "none", "truncate", "insert"
  last_save,            \* the latest call of save_to_db_dynamic
  committed,            \* per table, the keys written by the batches committed so far
  stations,             \* the rows of subway_station
  wr                    \* the calls made so far, when a function is exercised on its own

vars ==
  <<pc, BASE_URL, conn, db, now, config_i, page_no, rows, total_processed_all, ret,
    db0, requests, served, http_fail_first, undelivered, summary_calls,
    summary_fault, last_save, committed, stations, wr>>

NoSave == [made |-> FALSE]
NoReturn == [statusCode |-> 0, body |-> 0]

Init ==
  /\ pc = "start"
  /\ BASE_URL \in {"http://api", None}
  /\ conn = "none"
  /\ db \in InitialDbs
  /\ now = 1
  /\ config_i = 0
  /\ page_no = 0
  /\ rows = <<>>
  /\ total_processed_all = 0
  /\ ret = NoReturn
  /\ db0 = db
  /\ requests = <<>>
  /\ served = [e \in 1..NumEndpoints |-> <<>>]
  /\ http_fail_first = {}
  /\ undelivered = {}
  /\ summary_calls = 0
  /\ summary_fault = "none"
  /\ last_save = NoSave
  /\ committed = [t \in TableNames |-> {}]
  /\ stations = subway_station
  /\ wr = <<>>

(***************************************************************************)
(* lambda_handler, step by step.                                           *)
(***************************************************************************)
\* A variant that leaves the for loop as well.
BreakLoopLeavesFor ==
  /\ pc' = "finally"
  /\ UNCHANGED <<config_i, page_no>>

\* A variant that goes on to the next page of the same endpoint.
BreakLoopNextPage ==
  /\ pc' = "request"
  /\ page_no' = page_no + 1
  /\ UNCHANGED config_i

\* A variant that asks for the same page again.
BreakLoopRetries ==
  /\ pc' = "request"
  /\ UNCHANGED <<config_i, page_no>>

\* `break` out of the while loop (lines 415, 421, 430, 434, 445, 450): the for
\* loop takes the next config, or is over and line 453 is reached.
BreakLoop ==
  IF config_i < NumEndpoints
  THEN /\ config_i' = config_i + 1
       /\ page_no' = 1
       /\ pc' = "request"
  ELSE /\ pc' = "aggregate"
       /\ UNCHANGED <<config_i, page_no>>

\* An exception reaching the outer except (line 456): logged, then finally.
ToOuterExcept == pc' = "finally"

\* Line 386, get_connection returns a connection; the for loop starts.
GetConnectionOk ==
  /\ pc = "start"
  /\ conn' = "open"
  /\ config_i' = 1
  /\ page_no' = 1
  /\ pc' = "request"
  /\ UNCHANGED <<committed, stations, BASE_URL, db, now, rows, total_processed_all, ret, db0, requests,
                 served, http_fail_first, undelivered, summary_calls,
                 summary_fault, last_save, wr>>

\* A variant in which the failure is swallowed and the loop entered.
GetConnectionFailsGoesOn ==
  /\ pc = "start"
  /\ config_i' = 1
  /\ page_no' = 1
  /\ pc' = "request"
  /\ UNCHANGED <<committed, stations, BASE_URL, conn, db, now, rows, total_processed_all, ret, db0,
                 requests, served, http_fail_first, undelivered, summary_calls,
                 summary_fault, last_save, wr>>

\* Line 386, get_connection raises (lines 200-202): conn stays None.
GetConnectionFails ==
  /\ pc = "start"
  /\ ToOuterExcept
  /\ UNCHANGED <<committed, stations, BASE_URL, conn, db, now, config_i, page_no, rows,
                 total_processed_all, ret, db0, requests, served, http_fail_first,
                 undelivered, summary_calls, summary_fault, last_save, wr>>

\* Line 409 with BASE_URL unset: None.rstrip raises AttributeError before the
\* inner try of line 411, so it leaves both loops.
UrlRaises ==
  /\ pc = "request"
  /\ BASE_URL = None
  /\ ToOuterExcept
  /\ UNCHANGED <<committed, stations, BASE_URL, conn, db, now, config_i, page_no, rows,
                 total_processed_all, ret, db0, requests, served, http_fail_first,
                 undelivered, summary_calls, summary_fault, last_save, wr>>

\* Lines 412-434 on what requests.get did: the checks on the response, up to
\* the parsed page.  Every failure, and an empty page, ends the endpoint's loop.
OnResponse(resp) ==
  LET delivered == PageDelivered(resp)
      parsed == IF delivered THEN parse_api_response(Envelope(resp)) ELSE <<>>
  IN
  /\ requests' = Append(requests, <<config_i, page_no>>)
  /\ http_fail_first' =
       IF resp.kind = "http" /\ resp.status_code # 200 /\ page_no = 1
       THEN http_fail_first \cup {config_i} ELSE http_fail_first
  /\ undelivered' = IF delivered THEN undelivered ELSE undelivered \cup {config_i}
  /\ served' = IF delivered
               THEN [served EXCEPT ![config_i] = Append(@, Len(parsed))]
               ELSE served
  /\ IF Len(parsed) = 0
     THEN BreakLoop /\ rows' = <<>>
     ELSE /\ rows' = parsed
          /\ pc' = "save"
          /\ UNCHANGED <<config_i, page_no>>
  /\ UNCHANGED <<committed, stations, BASE_URL, conn, db, now, total_processed_all, ret, db0,
                 summary_calls, summary_fault, last_save>>

\* Lines 402-434: one request and the checks on its response.
Request ==
  /\ pc = "request"
  /\ BASE_URL # None
  /\ \E resp \in Responses(page_no) : OnResponse(resp)
  /\ UNCHANGED wr

\* Lines 436-446: the page is written, counted, and the loop goes on or ends.
Save ==
  /\ pc = "save"
  /\ LET cfg == API_CONFIG[config_i]
         n == Len(ValuesBatch([i \in 1..Len(rows) |-> InjectId(rows[i], cfg.pk_gen_keys)],
                              cfg.pk, cfg.mapping, 1))
     IN
     \E fault \in 0..(n + 1) :
       LET res == save_to_db_dynamic(db, cfg.table, cfg.pk, cfg.mapping, rows,
                                     cfg.pk_gen_keys, fault, now)
       IN
       /\ db' = res.db
       /\ total_processed_all' = total_processed_all + res.count
       /\ last_save' = [made |-> TRUE, config_i |-> config_i, page_no |-> page_no,
                        len |-> Len(rows), count |-> res.count]
       /\ committed' = IF res.count > 0
                       THEN [committed EXCEPT ![cfg.table] = @ \cup BatchKeys(rows, cfg)]
                       ELSE committed
       /\ IF IsLastPage(rows, res.count)
          THEN BreakLoop
          ELSE /\ page_no' = page_no + 1
               /\ pc' = "request"
               /\ UNCHANGED config_i
  /\ now' = now + 1
  /\ rows' = <<>>
  /\ UNCHANGED <<stations, BASE_URL, conn, ret, db0, requests, served, http_fail_first,
                 undelivered, summary_calls, summary_fault, wr>>

\* Lines 453-454 and 296-300: update_summary_table is entered and executes the
\* TRUNCATE, or raises there and takes its except branch.
SummaryTruncate ==
  /\ pc = "aggregate"
  /\ summary_calls' = summary_calls + 1
  /\ \/ /\ db' = execute_truncate(db)
        /\ pc' = "insert"
        /\ UNCHANGED summary_fault
     \/ /\ db' = OnSummaryError(begin(db))
        /\ summary_fault' = "truncate"
        /\ pc' = "finally"
  /\ now' = now + 1
  /\ UNCHANGED <<committed, stations, BASE_URL, conn, config_i, page_no, rows, total_processed_all, ret,
                 db0, requests, served, http_fail_first, undelivered, last_save, wr>>

\* Lines 372-378: the aggregate INSERT and the commit; an error in either takes
\* the except branch with the TRUNCATE, and whatever the INSERT did, pending.
SummaryInsert ==
  /\ pc = "insert"
  /\ \/ /\ db' = commit(execute_aggregate_insert(db, stations))
        /\ UNCHANGED summary_fault
     \/ /\ db' = OnSummaryError(db)
        /\ summary_fault' = "insert"
  /\ pc' = "finally"
  /\ UNCHANGED <<committed, stations, BASE_URL, conn, now, config_i, page_no, rows, total_processed_all,
                 ret, db0, requests, served, http_fail_first, undelivered,
                 summary_calls, last_save, wr>>

\* A variant without the conn.close() of the finally block.
FinallyLeavesOpen ==
  /\ pc = "finally"
  /\ ret' = ReturnValue(total_processed_all)
  /\ pc' = "done"
  /\ UNCHANGED <<committed, stations, BASE_URL, conn, db, now, config_i, page_no,
                 rows, total_processed_all, db0, requests, served, http_fail_first,
                 undelivered, summary_calls, summary_fault, last_save, wr>>

\* Lines 458-467: the connection is closed if there is one, and the handler
\* returns.
Finally ==
  /\ pc = "finally"
  /\ conn' = IF conn = "open" THEN "closed" ELSE conn
  /\ ret' = ReturnValue(total_processed_all)
  /\ pc' = "done"
  /\ UNCHANGED <<committed, stations, BASE_URL, db, now, config_i, page_no, rows, total_processed_all,
                 db0, requests, served, http_fail_first, undelivered,
                 summary_calls, summary_fault, last_save, wr>>

Next ==
  \/ GetConnectionOk
  \/ GetConnectionFails
  \/ UrlRaises
  \/ Request
  \/ Save
  \/ SummaryTruncate
  \/ SummaryInsert
  \/ Finally

Spec == Init /\ [][Next]_vars

(***************************************************************************)
(* Properties of a run.                                                    *)
(***************************************************************************)
TableOf(e) == API_CONFIG[e].table

\* The for loop is over (line 453 was reached).
ForLoopOver == conn # "none" /\ pc \in {"aggregate", "insert", "finally", "done"} /\ BASE_URL # None

\* The while loop of endpoint e has ended.
LoopEnded(e) == BASE_URL # None /\ conn # "none" /\ (config_i > e \/ ForLoopOver)

\* The page numbers requested from endpoint e, in the order of the requests.
RECURSIVE PagesRequested(_, _)
PagesRequested(e, i) ==
  IF i > Len(requests) THEN <<>>
  ELSE (IF requests[i][1] = e THEN <<requests[i][2]>> ELSE <<>>) \o PagesRequested(e, i + 1)

RECURSIVE SeqSum(_, _)
SeqSum(q, i) == IF i > Len(q) THEN 0 ELSE q[i] + SeqSum(q, i + 1)

\* update_summary_table has run once and committed.
AggregationCommitted ==
  /\ pc \in {"finally", "done"}
  /\ summary_calls = 1
  /\ summary_fault = "none"

\* C3: an endpoint whose first page came back with a status other than 200
\* gets no second request and has its table as the run found it; every later
\* endpoint of API_CONFIG is requested, and once the run is over
\* update_summary_table has run.
C3_Non200Isolated ==
  \A e \in http_fail_first :
    /\ db.tables[TableOf(e)] = db0.tables[TableOf(e)]
    /\ PagesRequested(e, 1) = <<1>>
    /\ ForLoopOver => \A e2 \in (e + 1)..NumEndpoints : PagesRequested(e2, 1) # <<>>
    /\ pc \in {"finally", "done"} => summary_calls = 1

\* The first endpoint failed with a non-200 status, a later one wrote rows, and
\* the aggregation committed.
C3_Witness ==
  /\ pc = "done"
  /\ 1 \in http_fail_first
  /\ total_processed_all > 0
  /\ summary_calls = 1
  /\ summary_fault = "none"

\* C4 (as claimed): in every run that opened the connection
\* update_summary_table is invoked exactly once, and only after the loop of the
\* last endpoint has ended.
C4_SummaryExactlyOnce ==
  /\ (pc = "done" /\ conn # "none") => summary_calls = 1
  /\ summary_calls <= 1
  /\ summary_calls = 1 => (ForLoopOver /\ PagesRequested(NumEndpoints, 1) # <<>>)

\* C5: when update_summary_table raised, at the TRUNCATE or after it, the
\* summary table holds the rows it held before the call, no transaction is left
\* open, and the handler returns what it returns for that total when the
\* aggregation succeeds.
C5_SummaryErrorRollsBack ==
  summary_fault # "none" =>
    /\ db.summary = db0.summary
    /\ ~db.tx.open
    /\ pc = "done" => ret = ReturnValue(total_processed_all)

\* The INSERT raised after the TRUNCATE, in a run that had written rows, with a
\* summary to lose.
C5_Witness ==
  /\ pc = "done"
  /\ summary_fault = "insert"
  /\ db0.summary # {}
  /\ db.tables # db0.tables
  /\ total_processed_all > 0

\* C6: at every point of a run a reader of subway_facility_total sees either
\* the summary the run started with or, once the recompute has committed, the
\* complete recomputed summary.
C6_ReaderSeesOldOrNew ==
  \/ visible_summary(db) = db0.summary
  \/ /\ pc \in {"finally", "done"}
     /\ summary_fault = "none"
     /\ summary_calls = 1
     /\ visible_summary(db) = AggregateSelect(db.tables, stations)

\* Between the TRUNCATE and the commit: the transaction sees the table empty,
\* the reader still sees the old rows.
C6_Witness ==
  /\ pc = "insert"
  /\ db.tx.open
  /\ db.tx.summary = {}
  /\ visible_summary(db) # {}
  /\ visible_summary(db) # AggregateSelect(db.tables, stations)

\* C7: when get_connection failed, no request has been issued, the database is
\* as the run found it and update_summary_table has not been invoked.
C7_NoConnectionNoWork ==
  (pc # "start" /\ conn = "none") =>
    /\ requests = <<>>
    /\ db = db0
    /\ total_processed_all = 0
    /\ last_save = NoSave
    /\ summary_calls = 0

C7_Witness == pc = "done" /\ conn = "none" /\ BASE_URL # None

\* C8 (as claimed): after a failed get_connection the handler returns a value
\* other than the one a normal run with zero rows written returns.
C8_FailureReported ==
  (pc = "done" /\ conn = "none") => ret # ReturnValue(0)

\* C9: after the writer has been given a page, the loop goes on to request the
\* next page of the same endpoint iff the page held at least num_of_rows
\* records, whatever count the writer returned; otherwise the endpoint's loop
\* ends.
C9_NextPageIffFull ==
  [][pc = "save" =>
       IF Len(rows) >= num_of_rows
       THEN pc' = "request" /\ config_i' = config_i /\ page_no' = page_no + 1
       ELSE ~(pc' = "request" /\ config_i' = config_i)]_vars

\* A full page whose batch was rolled back (0 written) was followed by the
\* request for the next page.
C9_Witness ==
  /\ last_save.made
  /\ last_save.len >= num_of_rows
  /\ last_save.count = 0
  /\ \E i \in 1..Len(requests) :
       requests[i] = <<last_save.config_i, last_save.page_no + 1>>

\* The upstream served endpoint e the n records of a data set faithfully: every
\* request was answered with a page, page p holding the records
\* (p-1)*num_of_rows+1 .. p*num_of_rows that exist.
ServedFaithfully(e, n) ==
  /\ e \notin undelivered
  /\ SeqSum(served[e], 1) = n
  /\ \A p \in 1..Len(served[e]) :
       LET rest == n - (p - 1) * num_of_rows
       IN served[e][p] = (IF rest >= num_of_rows THEN num_of_rows
                          ELSE IF rest > 0 THEN rest ELSE 0)

\* C10: when the loop of an endpoint served faithfully with n records has
\* ended, its requests were exactly those for pages 1 .. n \div num_of_rows + 1,
\* in this order.
C10_RequestCount ==
  \A e \in 1..NumEndpoints :
    LET n == SeqSum(served[e], 1) IN
    (LoopEnded(e) /\ ServedFaithfully(e, n)) =>
      PagesRequested(e, 1) = [p \in 1..((n \div num_of_rows) + 1) |-> p]

\* A full page and an empty one: n = num_of_rows cost a second request, which
\* returned no record and ended the loop with no failure.
C10_Witness ==
  /\ LoopEnded(1)
  /\ served[1] = <<num_of_rows, 0>>
  /\ ServedFaithfully(1, num_of_rows)
  /\ PagesRequested(1, 1) = <<1, 2>>

\* C11: at every point of a run, whatever failed since (a status other than
\* 200, a body that did not parse, a failing result code, an exception, a
\* rolled-back batch) and wherever the run stops, every key written by a
\* committed batch of this run, and every row the run found, is in the
\* committed rows of its facility table.
C11_EarlierPagesKept ==
  \A t \in TableNames :
    /\ committed[t] \subseteq DOMAIN db.tables[t]
    /\ DOMAIN db0.tables[t] \subseteq DOMAIN db.tables[t]

\* The second endpoint halted at its page 2 on a request that delivered no
\* page, after its full page 1 and a page of the first endpoint had committed.
C11_Witness ==
  /\ NumEndpoints >= 2
  /\ LoopEnded(2)
  /\ 2 \in undelivered
  /\ served[2] = <<num_of_rows>>
  /\ PagesRequested(2, 1) = <<1, 2>>
  /\ committed[TableOf(1)] # {}
  /\ committed[TableOf(2)] # {}
  /\ ~(committed[TableOf(2)] \subseteq DOMAIN db0.tables[TableOf(2)])

\* C20: once lambda_handler has returned, the connection is closed unless
\* get_connection never returned one; a connection is opened only at line 386
\* of a run that has none, so at most once; from the close on the connection
\* stays closed and the database is not touched; and the database is touched
\* only through the open connection.
C20_ConnectionClosedOnEveryPath ==
  /\ [](pc = "done" => conn \in {"none", "closed"})
  /\ [][ /\ (conn' = "open" /\ conn # "open") => (conn = "none" /\ pc = "start")
         /\ conn # "none" => conn' # "none"
         /\ conn = "closed" => (conn' = "closed" /\ db' = db)
         /\ db' # db => (conn = "open" /\ conn' = "open") ]_vars

\* The handler returned after the exception of line 409 escaped both loops,
\* with the connection it had opened closed.
C20_Witness ==
  /\ pc = "done"
  /\ BASE_URL = None
  /\ conn = "closed"
  /\ summary_calls = 0

\* C21: no step of a run (a page write committed or rolled back, a failed
\* request, the aggregation committed or rolled back, the return) removes a
\* primary key from the committed rows of a facility table.
C21_KeysNeverShrink ==
  [][\A t \in TableNames : DOMAIN db.tables[t] \subseteq DOMAIN db'.tables[t]]_vars

\* The run found a row in the first table, was served pages without it, wrote
\* other rows there and recomputed the summary: the row is still there.
C21_Witness ==
  /\ pc = "done"
  /\ AggregationCommitted
  /\ committed[TableOf(1)] # {}
  /\ \E k \in DOMAIN db0.tables[TableOf(1)] :
       k \notin committed[TableOf(1)] /\ k \in DOMAIN db.tables[TableOf(1)]

\* C24: the requests of a run start at the first endpoint of API_CONFIG, each
\* is for the next page of the endpoint of the one before or for page 1 of the
\* next endpoint, so the pages of an endpoint are 1, 2, 3, ..., no endpoint is
\* returned to, and no (endpoint, pageNo) is requested twice, whatever failed.
C24_RequestsInOrderNoRetry ==
  /\ Len(requests) > 0 => requests[1] = <<1, 1>>
  /\ \A i \in 1..Len(requests) :
       /\ requests[i][1] \in 1..NumEndpoints
       /\ i > 1 =>
            \/ requests[i] = <<requests[i - 1][1], requests[i - 1][2] + 1>>
            \/ requests[i] = <<requests[i - 1][1] + 1, 1>>
       /\ \A j \in 1..Len(requests) :
            /\ i < j => requests[i][1] <= requests[j][1]
            /\ i # j => requests[i] # requests[j]
  /\ \A e \in 1..NumEndpoints :
       PagesRequested(e, 1) = [p \in 1..Len(PagesRequested(e, 1)) |-> p]

\* The first endpoint halted on a request that delivered no page, after a
\* full page whose batch was rolled back; the run went on to the second
\* endpoint and asked for none of these pages again.
C24_Witness ==
  /\ pc = "done"
  /\ NumEndpoints >= 2
  /\ 1 \in undelivered
  /\ requests = << <<1, 1>>, <<1, 2>>, <<2, 1>>, <<2, 2>> >>
  /\ total_processed_all = 0

\* C25: when a request is issued no fetched record is buffered and no write is
\* pending on the connection; for a page after the first, the page before it
\* was the last one handed to the writer, whole; a page being handed to the
\* writer is the one the last request fetched; and every non-empty page fetched
\* before the current one was handed to the writer.
C25_PageWrittenBeforeNextRequest ==
  /\ pc = "request" =>
       /\ rows = <<>>
       /\ db.tx = NoTx
       /\ page_no > 1 =>
            /\ last_save.made
            /\ last_save.config_i = config_i
            /\ last_save.page_no = page_no - 1
            /\ Len(served[config_i]) = page_no - 1
            /\ last_save.len = served[config_i][page_no - 1]
            /\ last_save.len > 0
  /\ pc = "save" =>
       /\ rows # <<>>
       /\ db.tx = NoTx
       /\ requests[Len(requests)] = <<config_i, page_no>>
       /\ Len(served[config_i]) = page_no
       /\ Len(rows) = served[config_i][page_no]
  /\ \A e \in 1..NumEndpoints : \A p \in 1..Len(served[e]) :
       (served[e][p] > 0 /\ ~(pc = "save" /\ e = config_i /\ p = page_no))
         => /\ last_save.made
            /\ \/ last_save.config_i > e
               \/ last_save.config_i = e /\ last_save.page_no >= p

\* The second page of an endpoint is about to be requested: the first, a full
\* one, went to the writer, whose batch was rolled back, and nothing is pending.
C25_Witness ==
  /\ pc = "request"
  /\ page_no = 2
  /\ last_save.made
  /\ last_save.config_i = config_i
  /\ last_save.page_no = 1
  /\ last_save.len = num_of_rows
  /\ last_save.count = 0
  /\ rows = <<>>
  /\ db.tx = NoTx

\* The number of records fetched so far from the endpoints 1 .. e.
RECURSIVE Fetched(_)
Fetched(e) == IF e = 0 THEN 0 ELSE SeqSum(served[e], 1) + Fetched(e - 1)

\* C26: the total starts at 0, each page handed to the writer adds the count
\* the writer returned for it (0 for a rolled-back batch) and no other step
\* changes it, so it never decreases; it never exceeds the number of records
\* fetched; and the handler reports it.
C26_TotalIsSumOfCounts ==
  /\ [](pc = "start" => total_processed_all = 0)
  /\ [](total_processed_all <= Fetched(NumEndpoints))
  /\ [](pc = "done" => ret = [statusCode |-> 200, body |-> total_processed_all])
  /\ [][/\ total_processed_all' >= total_processed_all
        /\ IF pc = "save"
           THEN /\ last_save'.made
                /\ last_save'.count \in
                     {0, Len(rows) - Cardinality({j \in 1..Len(rows) :
                           Falsy(generate_unique_id(rows[j], API_CONFIG[config_i].pk_gen_keys))})}
                /\ total_processed_all' = total_processed_all + last_save'.count
           ELSE total_processed_all' = total_processed_all]_vars

\* A run fetched two pages from one endpoint, a full one whose batch was
\* rolled back and a short one that committed, and reported the count of the
\* second alone.
C26_Witness ==
  /\ pc = "done"
  /\ served[1] = <<num_of_rows, 1>>
  /\ Fetched(NumEndpoints) > num_of_rows
  /\ total_processed_all = 1
  /\ ret.body = 1

\* C33: a page write changes, of the committed database, at most the facility
\* table of its endpoint: every other facility table, the summary table and
\* the station table are as before, and nothing is left pending.  A step of
\* update_summary_table changes, of the committed database, at most
\* subway_facility_total: the facility tables, also as its transaction sees
\* them, and the station table are as before, whether it commits or rolls back.
C33_FrameConditions ==
  [][/\ pc = "save" =>
          /\ \A t \in TableNames \ {TableOf(config_i)} : db'.tables[t] = db.tables[t]
          /\ db'.summary = db.summary
          /\ db'.tx = NoTx
          /\ stations' = stations
     /\ pc \in {"aggregate", "insert"} =>
          /\ db'.tables = db.tables
          /\ db'.tx.open => db'.tx.tables = db.tables
          /\ stations' = stations
          /\ (summary_fault' # "none") => db'.summary = db.summary /\ db'.tx = NoTx]_vars

\* A page of the second endpoint was committed while the table of the first
\* held rows, and the summary was rebuilt to another content: the first table
\* is what it was before the run.
C33_Witness ==
  /\ pc = "done"
  /\ NumEndpoints >= 2
  /\ AggregationCommitted
  /\ committed[TableOf(2)] # {}
  /\ committed[TableOf(1)] = {}
  /\ db0.tables[TableOf(1)] # <<>>
  /\ db.tables[TableOf(1)] = db0.tables[TableOf(1)]
  /\ db.tables[TableOf(2)] # db0.tables[TableOf(2)]
  /\ db.summary # db0.summary

(***************************************************************************)
(* The writer on its own: save_to_db_dynamic called twice on one table,    *)
(* from any of WriterDbs, with any pages and any database fault.           *)
(***************************************************************************)
InitWriter ==
  /\ pc = "writer"
  /\ BASE_URL = "http://api"
  /\ conn = "open"
  /\ db \in WriterDbs
  /\ now = 1
  /\ config_i \in 1..NumEndpoints
  /\ page_no = 0
  /\ rows = <<>>
  /\ total_processed_all = 0
  /\ ret = NoReturn
  /\ db0 = db
  /\ requests = <<>>
  /\ served = [e \in 1..NumEndpoints |-> <<>>]
  /\ http_fail_first = {}
  /\ undelivered = {}
  /\ summary_calls = 0
  /\ summary_fault = "none"
  /\ last_save = NoSave
  /\ committed = [t \in TableNames |-> {}]
  /\ stations = subway_station
  /\ wr = <<>>

\* One call save_to_db_dynamic(conn, table, pk, mapping, page, pk_gen_keys).
WriterCall(page) ==
  LET cfg == API_CONFIG[config_i]
      n == Len(ValuesBatch([i \in 1..Len(page) |-> InjectId(page[i], cfg.pk_gen_keys)],
                           cfg.pk, cfg.mapping, 1))
  IN
  \E fault \in 0..(n + 1) :
    LET res == save_to_db_dynamic(db, cfg.table, cfg.pk, cfg.mapping, page,
                                  cfg.pk_gen_keys, fault, now)
    IN
    /\ db' = res.db
    /\ now' = now + 1
    /\ wr' = Append(wr, [page |-> page, fault |-> fault, n |-> n, before |-> db,
                         after |-> res.db, count |-> res.count,
                         data_list |-> res.data_list])
    /\ UNCHANGED <<pc, committed, stations, BASE_URL, conn, config_i, page_no, rows, total_processed_all,
                   ret, db0, requests, served, http_fail_first, undelivered,
                   summary_calls, summary_fault, last_save>>

FirstCall ==
  /\ pc = "writer"
  /\ Len(wr) = 0
  /\ \E page \in WriterPages : WriterCall(page)

\* The second call gets any page, among them the first call's own list (whose
\* items the first call left with their generated_id).
SecondCall ==
  /\ pc = "writer"
  /\ Len(wr) = 1
  /\ \E page \in WriterPages \cup {wr[1].data_list} : WriterCall(page)

NextWriter == FirstCall \/ SecondCall

SpecWriter == InitWriter /\ [][NextWriter]_vars

\* A table's rows without their updated_at.
StripUpdatedAt(tables) ==
  [t \in DOMAIN tables |->
     [k \in DOMAIN tables[t] |->
        [col \in DOMAIN tables[t][k] \ {"updated_at"} |-> tables[t][k][col]]]]

\* The second call was given the page of the first.
SamePageTwice ==
  /\ Len(wr) = 2
  /\ wr[2].page \in {wr[1].page, wr[1].data_list}

\* C1: writing the identical page a second time, both batches committing,
\* leaves every table with the same keys and, but for updated_at, the same
\* column values as after the first write, and leaves the summary alone.
C1_Idempotent ==
  (SamePageTwice /\ wr[1].fault = 0 /\ wr[2].fault = 0)
  => /\ StripUpdatedAt(wr[2].after.tables) = StripUpdatedAt(wr[1].after.tables)
     /\ wr[2].after.summary = wr[1].after.summary
     /\ ~wr[2].after.tx.open

\* A page with one key twice was written twice: the first write added a row,
\* the second changed nothing but updated_at.
C1_Witness ==
  /\ SamePageTwice /\ wr[1].fault = 0 /\ wr[2].fault = 0
  /\ wr[1].page = <<recA1, recA2>>
  /\ wr[2].page = wr[1].data_list
  /\ wr[1].after.tables # wr[1].before.tables
  /\ wr[2].after.tables # wr[1].after.tables

\* C2: a call in which the database raised, at any statement of the batch or at
\* the commit, leaves the database exactly as it found it, with no transaction
\* open, and returns 0.
C2_ErrorRollsBack ==
  \A i \in 1..Len(wr) :
    wr[i].fault > 0 =>
      /\ wr[i].after = wr[i].before
      /\ ~wr[i].after.tx.open
      /\ wr[i].count = 0

\* The second statement of a batch raised on a table that lacked the first
\* statement's key.
C2_Witness ==
  /\ Len(wr) >= 1
  /\ wr[1].fault = 2
  /\ wr[1].n >= 2
  /\ wr[1].before.tables[API_CONFIG[config_i].table] = <<>>

\* The positions of a page whose record gets no key: a key field holds a value
\* that cannot be encoded (the configured key is the generated one, and the
\* digest of any string that can be encoded is not empty).
SkippedAt(page) ==
  {j \in 1..Len(page) :
     \E f \in DOMAIN page[j] :
       /\ \E q \in 1..Len(API_CONFIG[config_i].pk_gen_keys) :
            API_CONFIG[config_i].pk_gen_keys[q] = f
       /\ ~Encodable(Str(page[j][f]))}

\* C15: in every call the batch holds one tuple per record of the page but the
\* skipped ones; when the database raised nothing, the count is the number of
\* records not skipped, the table has gained exactly their keys, and a page of
\* skipped records only leaves the database as it was, returning 0 with no
\* transaction opened.
C15_SkippedAloneLeftOut ==
  \A i \in 1..Len(wr) :
    LET page == wr[i].page
        t == API_CONFIG[config_i].table
        kept == (1..Len(page)) \ SkippedAt(page)
        ids == {wr[i].data_list[j]["generated_id"] : j \in kept}
    IN
    /\ wr[i].n = Cardinality(kept)
    /\ \A j \in SkippedAt(page) : wr[i].data_list[j]["generated_id"] = None
    /\ None \notin ids
    /\ wr[i].fault = 0 =>
         /\ wr[i].count = Cardinality(kept)
         /\ DOMAIN wr[i].after.tables[t] = DOMAIN wr[i].before.tables[t] \cup ids
         /\ ~wr[i].after.tx.open
    /\ kept = {} => (wr[i].after = wr[i].before /\ wr[i].count = 0)

\* A page with a skipped record between two others was written to a table
\* that held neither: both are there and the count is 2.
C15_Witness ==
  /\ Len(wr) >= 1
  /\ wr[1].page = <<recA1, recBad, recB>>
  /\ wr[1].fault = 0
  /\ wr[1].count = 2
  /\ wr[1].before.tables[API_CONFIG[config_i].table] = <<>>
  /\ Cardinality(DOMAIN wr[1].after.tables[API_CONFIG[config_i].table]) = 2

\* C16 (as claimed): when the same page is written a second time, both batches
\* committing, the second count is the number of records of the page.
C16_SecondCountIsPageSize ==
  (SamePageTwice /\ wr[1].fault = 0 /\ wr[2].fault = 0)
  => wr[2].count = Len(wr[2].page)

\* C16: when the same page is written a second time, both batches committing,
\* the second count equals the first, is the number of records of the page that
\* were not skipped (the page size when none was), and the second write adds
\* no row.
C16_SecondCountIsBatchSize ==
  (SamePageTwice /\ wr[1].fault = 0 /\ wr[2].fault = 0)
  => /\ wr[2].count = wr[1].count
     /\ wr[2].count = Len(wr[2].page) - Cardinality(SkippedAt(wr[2].page))
     /\ DOMAIN wr[2].after.tables[API_CONFIG[config_i].table]
          = DOMAIN wr[1].after.tables[API_CONFIG[config_i].table]

\* A page of two records was written twice to a table that held neither: the
\* second write returned 2 again and added nothing.
C16_Witness ==
  /\ SamePageTwice /\ wr[1].fault = 0 /\ wr[2].fault = 0
  /\ wr[1].page = <<recA1, recB>>
  /\ wr[1].before.tables[API_CONFIG[config_i].table] = <<>>
  /\ wr[2].count = 2
  /\ wr[2].count = Len(wr[2].page)
  /\ Cardinality(DOMAIN wr[2].after.tables[API_CONFIG[config_i].table]) = 2

\* The table the calls write to.
WriterTable == API_CONFIG[config_i].table

\* The ids of the records of call i that are in its batch.
BatchIds(i) ==
  {wr[i].data_list[j]["generated_id"] : j \in 1..Len(wr[i].data_list)} \ {None}

\* The last record, in page order, of call i that carries key k.
LastWith(i, k) ==
  LET items == wr[i].data_list
      j == CHOOSE j \in 1..Len(items) :
             /\ items[j]["generated_id"] = k
             /\ \A j2 \in (j + 1)..Len(items) : items[j2]["generated_id"] # k
  IN items[j]

\* A table row holds, in every mapped column, what record rec carries for it,
\* NULL where the record lacks the field.
RowIsRecord(row, rec) ==
  LET mapping == API_CONFIG[config_i].mapping IN
  \A m \in 1..Len(mapping) : row[mapping[m][1]] = Get(rec, mapping[m][2], None)

\* The database after the two pages were committed in the other order, from
\* the database the first call found.
OtherOrder ==
  LET cfg == API_CONFIG[config_i]
      first == save_to_db_dynamic(wr[1].before, cfg.table, cfg.pk, cfg.mapping,
                                  wr[2].page, cfg.pk_gen_keys, 0, 1)
  IN save_to_db_dynamic(first.db, cfg.table, cfg.pk, cfg.mapping,
                        wr[1].page, cfg.pk_gen_keys, 0, 2).db

BothCommitted == Len(wr) = 2 /\ wr[1].fault = 0 /\ wr[2].fault = 0

\* C22 (as claimed): two batches committed to one table leave the same rows,
\* but for updated_at, in either order.
C22_BatchesCommute ==
  BothCommitted =>
    StripUpdatedAt(wr[2].after.tables) = StripUpdatedAt(OtherOrder.tables)

\* No key is carried by both batches with different values.
NoConflict ==
  \A k \in BatchIds(1) \cap BatchIds(2) :
    \A m \in 1..Len(API_CONFIG[config_i].mapping) :
      Get(LastWith(1, k), API_CONFIG[config_i].mapping[m][2], None)
        = Get(LastWith(2, k), API_CONFIG[config_i].mapping[m][2], None)

\* C22: two batches committed to one table leave the same keys in either
\* order, and the same rows, but for updated_at, when no key is carried by both
\* with different values; a key both carry holds the values of the batch
\* committed last.
C22_CommuteUnlessConflict ==
  BothCommitted =>
    /\ \A t \in TableNames :
         DOMAIN wr[2].after.tables[t] = DOMAIN OtherOrder.tables[t]
    /\ NoConflict =>
         StripUpdatedAt(wr[2].after.tables) = StripUpdatedAt(OtherOrder.tables)
    /\ \A k \in BatchIds(1) \cap BatchIds(2) :
         /\ RowIsRecord(wr[2].after.tables[WriterTable][k], LastWith(2, k))
         /\ RowIsRecord(OtherOrder.tables[WriterTable][k], LastWith(1, k))

\* Two pages with no key in common, one of them with a key the table held
\* with other values, were committed: either order leaves the same rows.
C22_Witness ==
  /\ BothCommitted
  /\ wr[1].page = <<recA1>>
  /\ wr[2].page = <<recB>>
  /\ wr[1].before.tables[WriterTable] # <<>>
  /\ NoConflict
  /\ wr[2].after.tables # wr[1].after.tables
  /\ StripUpdatedAt(wr[2].after.tables) = StripUpdatedAt(OtherOrder.tables)

\* C23: after a committed batch the row of every key of the batch holds, in
\* every mapped column, the value of the last record of the page with that key,
\* NULL where that record lacks the field, whatever the table held before and
\* whatever earlier records of the page carried.
C23_LastRecordWins ==
  \A i \in 1..Len(wr) :
    wr[i].fault = 0 =>
      \A k \in BatchIds(i) :
        /\ k \in DOMAIN wr[i].after.tables[WriterTable]
        /\ RowIsRecord(wr[i].after.tables[WriterTable][k], LastWith(i, k))

\* The table held a row with a management number; a page whose last record
\* for that key lacks the field, after one that has it, left NULL there.
C23_Witness ==
  /\ BothCommitted
  /\ wr[1].page = <<recA1>>
  /\ wr[2].page = <<recA1, recA2>>
  /\ \E k \in BatchIds(2) :
       /\ wr[2].before.tables[WriterTable][k]["mng_no"] = "x"
       /\ wr[2].after.tables[WriterTable][k]["mng_no"] = None
       /\ wr[2].after.tables[WriterTable][k]["stn_nm"] = "seoul"

\* The positions of a page whose record carries none of the key fields.
NoKeyFieldAt(page) ==
  {j \in 1..Len(page) :
     \A q \in 1..Len(API_CONFIG[config_i].pk_gen_keys) :
       API_CONFIG[config_i].pk_gen_keys[q] \notin DOMAIN page[j]}

\* C30 (as claimed): the count returned for a committed page is the number of
\* records of the page.
C30_CountIsPageSize ==
  \A i \in 1..Len(wr) :
    (wr[i].fault = 0 /\ wr[i].n > 0) => wr[i].count = Len(wr[i].page)

\* C30: a record that lacks every key field gets the digest of the empty
\* string, which is not empty, and is in the batch; the records left out are
\* those whose key could not be generated, none for a missing field; in a
\* committed page the records without key fields share one row, and the count
\* is the number of records whose key was generated, the page size when none
\* failed.
C30_MissingKeyFieldsNeverSkip ==
  \A i \in 1..Len(wr) :
    LET page == wr[i].page
        items == wr[i].data_list
    IN
    /\ \A j \in NoKeyFieldAt(page) :
         /\ items[j]["generated_id"] = md5("")
         /\ ~Falsy(items[j]["generated_id"])
    /\ \A j \in 1..Len(page) :
         Falsy(items[j]["generated_id"]) <=> j \in SkippedAt(page)
    /\ wr[i].n = Len(page) - Cardinality(SkippedAt(page))
    /\ (wr[i].fault = 0 /\ wr[i].n > 0) =>
         /\ wr[i].count = Len(page) - Cardinality(SkippedAt(page))
         /\ NoKeyFieldAt(page) # {} => md5("") \in DOMAIN wr[i].after.tables[WriterTable]
         /\ DOMAIN wr[i].after.tables[WriterTable]
              = DOMAIN wr[i].before.tables[WriterTable] \cup BatchIds(i)

\* Two records without any key field were committed to an empty table: the
\* count is 2 and the table holds one row, that of the second.
C30_Witness ==
  /\ Len(wr) >= 1
  /\ wr[1].page = <<recNoKey1, recNoKey2>>
  /\ wr[1].fault = 0
  /\ wr[1].count = 2
  /\ wr[1].before.tables[WriterTable] = <<>>
  /\ DOMAIN wr[1].after.tables[WriterTable] = {md5("")}
  /\ wr[1].after.tables[WriterTable][md5("")]["stn_nm"] = "gangnam"

(***************************************************************************)
(* update_summary_table on its own: one call on a database whose facility  *)
(* tables, station table and previous summary are any of the sets below.   *)
(***************************************************************************)
\* Facility records of one station under its spellings, and of others.
agSuffix ==
  [stnCd |-> "1", lineNm |-> "2", fcltNm |-> "f1", stnNm |-> "seoulY",
   oprtngSitu |-> "M"]
agBare ==
  [stnCd |-> "1", lineNm |-> "2", fcltNm |-> "f2", stnNm |-> "seoul",
   oprtngSitu |-> "M"]
agStopped ==
  [stnCd |-> "1", lineNm |-> "2", fcltNm |-> "f3", stnNm |-> "seoul",
   oprtngSitu |-> "S"]
\* Spaces around the name, and no status value.
agPadded ==
  [stnCd |-> "1", lineNm |-> "2", fcltNm |-> "f4", stnNm |-> " seoulY "]
\* The glyph inside the name.
agInner ==
  [stnCd |-> "5", lineNm |-> "2", fcltNm |-> "f5", stnNm |-> "seYoul",
   oprtngSitu |-> "M"]
agGangnam ==
  [stnCd |-> "2", lineNm |-> "2", fcltNm |-> "f6", stnNm |-> "gangnam",
   oprtngSitu |-> "M"]
agNoName ==
  [stnCd |-> "9", lineNm |-> "2", fcltNm |-> "f7", oprtngSitu |-> "M"]

\* What earlier runs wrote to one facility table.
AggPages ==
  { <<>>, <<agSuffix>>, <<agBare>>, <<agSuffix, agStopped, agPadded>>,
    <<agInner, agGangnam, agNoName>> }

\* A station table with one row per name.
subway_station_single ==
  { [name |-> "seoulY", station_cd |-> "S1", line |-> "1"],
    [name |-> "gangnam", station_cd |-> "G2", line |-> "2"] }

StationTables == {subway_station, subway_station_single}

RECURSIVE WriteAll(_, _, _)
\* The database after pages[i], ... were committed to the tables of the
\* endpoints i, ... of API_CONFIG.
WriteAll(c, pages, i) ==
  IF i > Len(pages) THEN c
  ELSE WriteAll(save_to_db_dynamic(c, API_CONFIG[i].table, API_CONFIG[i].pk,
                                   API_CONFIG[i].mapping, pages[i],
                                   API_CONFIG[i].pk_gen_keys, 0, 0).db,
                pages, i + 1)

\* Summaries an earlier recompute left: none, one of a station since removed,
\* one computed when the facility tables were empty.
PriorSummaries ==
  { {}, {SummaryRow("closed", {})}, AggregateSelect(EmptyTables, subway_station) }

AggDbs ==
  { [WriteAll(EmptyDb, pages, 1) EXCEPT !.summary = prior]
    : pages \in [1..NumEndpoints -> AggPages], prior \in PriorSummaries }

InitAgg ==
  /\ pc = "aggregate"
  /\ BASE_URL = "http://api"
  /\ conn = "open"
  /\ db \in AggDbs
  /\ now = 1
  /\ config_i = NumEndpoints
  /\ page_no = 1
  /\ rows = <<>>
  /\ total_processed_all = 0
  /\ ret = NoReturn
  /\ db0 = db
  /\ requests = <<>>
  /\ served = [e \in 1..NumEndpoints |-> <<>>]
  /\ http_fail_first = {}
  /\ undelivered = {}
  /\ summary_calls = 0
  /\ summary_fault = "none"
  /\ last_save = NoSave
  /\ committed = [t \in TableNames |-> {}]
  /\ stations \in StationTables
  /\ wr = <<>>

NextAgg == SummaryTruncate \/ SummaryInsert

SpecAgg == InitAgg /\ [][NextAgg]_vars

StationNames == {st.name : st \in stations}

\* A name without its last character when that is the station-suffix glyph.
StripSuffix(s) ==
  IF Len(s) > 0 /\ SubSeq(s, Len(s), Len(s)) = YEOK
  THEN SubSeq(s, 1, Len(s) - 1) ELSE s

\* A row is left out of the counts only for its status 'S', and only in the
\* elevator, escalator, lift and moving-walk tables.
CountedByStatus(t, row) ==
  t \in {"subway_elevator", "subway_escalator", "subway_lift", "subway_movingwalk"}
  => row["oprtng_situ"] # "S"

\* The keys of the countable rows of facility table t whose station name,
\* normalized as the join normalizes it, is that of station name nm.
CountedRows(t, nm) ==
  {k \in DOMAIN db.tables[t] :
     /\ CountedByStatus(t, db.tables[t][k])
     /\ JoinOn(nm, db.tables[t][k]["stn_nm"])}

\* C13 (as claimed): after a committed aggregation every station name has a
\* summary row, and each count of the row is the number of countable rows of
\* that facility table whose normalized station name is the station's, 0 when
\* there is none.
C13_CountsExact ==
  AggregationCommitted =>
    /\ \A nm \in StationNames : \E sr \in db.summary : sr["station_name"] = nm
    /\ \A sr \in db.summary : \A i \in 1..Len(JoinOrder) :
         sr[JoinOrder[i][2]] =
           Cardinality(CountedRows(JoinOrder[i][1], sr["station_name"]))

\* Two names match when they are equal after the removal of surrounding
\* whitespace and of one trailing glyph.
MatchTrailing(name, stn_nm) ==
  /\ name # None
  /\ stn_nm # None
  /\ StripSuffix(TRIM(name)) = StripSuffix(TRIM(stn_nm))

\* C14 (as claimed): after a committed aggregation a count of a station's
\* summary row is positive iff that facility table holds a countable row whose
\* station name equals the station's after the removal of surrounding
\* whitespace and of a trailing glyph; a name that differs by a glyph at its
\* start or inside contributes nothing.
C14_TrailingGlyphOnly ==
  AggregationCommitted =>
    \A sr \in db.summary : \A i \in 1..Len(JoinOrder) :
      LET t == JoinOrder[i][1] IN
      (sr[JoinOrder[i][2]] > 0) <=>
        (\E k \in DOMAIN db.tables[t] :
           /\ CountedByStatus(t, db.tables[t][k])
           /\ MatchTrailing(sr["station_name"], db.tables[t][k]["stn_nm"]))

\* The countable rows of table t that carry exactly the name nm.
RowsNamed(t, nm) ==
  {k \in DOMAIN db.tables[t] :
     CountedByStatus(t, db.tables[t][k]) /\ db.tables[t][k]["stn_nm"] = nm}

\* C17: after a committed aggregation, when a station's name is in suffix form
\* and one facility table holds a countable row with that name while another
\* holds one with its bare form, exactly one summary row carries the station's
\* name, both its counts for the two tables are at least 1, and no other
\* summary row (none for the bare spelling in particular) counts either row.
C17_OneRowForBothSpellings ==
  AggregationCommitted =>
    \A nm \in StationNames : \A i, j \in 1..Len(JoinOrder) :
      ( /\ i # j
        /\ StripSuffix(nm) # nm
        /\ RowsNamed(JoinOrder[i][1], nm) # {}
        /\ RowsNamed(JoinOrder[j][1], StripSuffix(nm)) # {} )
      => /\ Cardinality({sr \in db.summary : sr["station_name"] = nm}) = 1
         /\ \A sr \in db.summary :
              IF sr["station_name"] = nm
              THEN sr[JoinOrder[i][2]] >= 1 /\ sr[JoinOrder[j][2]] >= 1
              ELSE /\ sr["station_name"] # StripSuffix(nm)
                   /\ ~JoinOn(sr["station_name"], nm)

\* The elevator table holds the suffix form only, the toilet table the bare
\* form only, and the recompute has committed.
C17_Witness ==
  /\ AggregationCommitted
  /\ RowsNamed("subway_elevator", "seoulY") # {}
  /\ RowsNamed("subway_elevator", "seoul") = {}
  /\ RowsNamed("subway_toilet", "seoul") # {}
  /\ RowsNamed("subway_toilet", "seoulY") = {}
  /\ \E sr \in db.summary :
       sr["station_name"] = "seoulY" /\ sr["elevator_count"] >= 1 /\ sr["toilet_count"] >= 1

\* How many groups of the per-name counts of table t the rows of station name
\* nm are joined to: each matching spelling once, or once with NULLs.
Width(t, nm) ==
  LET spellings == {db.tables[t][k]["stn_nm"] : k \in CountedRows(t, nm)}
  IN IF spellings = {} THEN 1 ELSE Cardinality(spellings)

RECURSIVE WidthOfOthers(_, _, _)
WidthOfOthers(nm, i, j) ==
  IF j > Len(JoinOrder) THEN 1
  ELSE (IF j = i THEN 1 ELSE Width(JoinOrder[j][1], nm)) * WidthOfOthers(nm, i, j + 1)

\* How many joined rows of station name nm carry one given group of the i-th
\* joined table.
TimesJoined(nm, i) ==
  Cardinality({st \in stations : st.name = nm}) * WidthOfOthers(nm, i, 1)

\* C18: after a committed aggregation each count of a summary row is made of
\* the rows of that table that match the station and, in the elevator,
\* escalator, lift and moving-walk tables, have a status other than 'S' (no
\* status included), each such row counted as often as its group is joined,
\* and of no other row; in the other five tables every matching row counts.
C18_CountedUnlessStopped ==
  AggregationCommitted =>
    \A sr \in db.summary : \A i \in 1..Len(JoinOrder) :
      sr[JoinOrder[i][2]] =
        TimesJoined(sr["station_name"], i)
        * Cardinality(CountedRows(JoinOrder[i][1], sr["station_name"]))

\* The elevator table held a running row, a stopped one and one without a
\* status; the toilet table a row: the stopped row alone is left out.
C18_Witness ==
  /\ AggregationCommitted
  /\ stations = subway_station_single
  /\ \E k \in DOMAIN db.tables["subway_elevator"] :
       db.tables["subway_elevator"][k]["oprtng_situ"] = "S"
  /\ \E k \in DOMAIN db.tables["subway_elevator"] :
       db.tables["subway_elevator"][k]["oprtng_situ"] = None
  /\ Cardinality(DOMAIN db.tables["subway_elevator"]) = 3
  /\ Cardinality(DOMAIN db.tables["subway_toilet"]) = 1
  /\ \E sr \in db.summary :
       /\ sr["station_name"] = "seoulY"
       /\ sr["elevator_count"] = 2
       /\ sr["toilet_count"] >= 1

\* C19: after a committed aggregation the summary table holds exactly one row
\* per distinct name of subway_station and is the aggregate of the facility
\* tables and the station table, whatever the summary held before.
C19_SummaryIsFunctionOfTables ==
  AggregationCommitted =>
    /\ db.summary = AggregateSelect(db.tables, stations)
    /\ Cardinality(db.summary) = Cardinality(StationNames)
    /\ \A nm \in StationNames :
         Cardinality({sr \in db.summary : sr["station_name"] = nm}) = 1
    /\ \A sr \in db.summary : sr["station_name"] \in StationNames

\* The previous summary held a row of a station no longer in subway_station
\* and the facility tables are not empty: the row is gone after the recompute.
C19_Witness ==
  /\ AggregationCommitted
  /\ db0.summary = {SummaryRow("closed", {})}
  /\ db.tables # EmptyTables
  /\ db.summary # {}
  /\ db.summary \cap db0.summary = {}

(***************************************************************************)
(* generate_unique_id on its own: two records and a key-field list.        *)
(***************************************************************************)
\* A field a record does not carry.
Absent == "<absent>"

\* The record with the fields of full that are not Absent.
MkItem(full) == [f \in {g \in DOMAIN full : full[g] # Absent} |-> full[f]]

\* Records of the upstream: station codes one of which is a prefix of the
\* other, null, a code that cannot be encoded; line names likewise, empty or
\* missing; a field outside every key list present or not.
IdRecords ==
  { MkItem([stnCd |-> a, lineNm |-> b, fcltNm |-> "e", mngNo |-> c])
    : a \in {"1", "11", None, LoneSurrogate},
      b \in {"2", "12", "", Absent},
      c \in {"x", Absent} }

\* The key-field lists of API_CONFIG.
KeyLists == {API_CONFIG[i].pk_gen_keys : i \in 1..Len(API_CONFIG)}

InitId ==
  /\ pc = "id"
  /\ BASE_URL = "http://api"
  /\ conn = "none"
  /\ db = EmptyDb
  /\ now = 1
  /\ config_i = 0
  /\ page_no = 0
  /\ rows \in {<<r1, r2>> : r1 \in IdRecords, r2 \in IdRecords}
  /\ total_processed_all = 0
  /\ ret = NoReturn
  /\ db0 = db
  /\ requests = <<>>
  /\ served = [e \in 1..NumEndpoints |-> <<>>]
  /\ http_fail_first = {}
  /\ undelivered = {}
  /\ summary_calls = 0
  /\ summary_fault = "none"
  /\ last_save = NoSave
  /\ committed = [t \in TableNames |-> {}]
  /\ stations = subway_station
  /\ wr = <<>>

\* generate_unique_id(r, keys) for both records.
HashPair ==
  /\ pc = "id"
  /\ Len(wr) < 2
  /\ \E keys \in KeyLists :
       wr' = Append(wr, [keys |-> keys,
                         id1 |-> generate_unique_id(rows[1], keys),
                         id2 |-> generate_unique_id(rows[2], keys)])
  /\ UNCHANGED <<pc, BASE_URL, conn, db, now, config_i, page_no, rows,
                 total_processed_all, ret, db0, requests, served, http_fail_first,
                 undelivered, summary_calls, summary_fault, last_save, committed,
                 stations>>

NextId == HashPair

SpecId == InitId /\ [][NextId]_vars

\* The values of the key fields as generate_unique_id reads them: the string
\* of each, a missing field the empty string.
KeyTuple(r, keys) == [j \in 1..Len(keys) |-> Str(Get(r, keys[j], ""))]

\* C12 (as claimed): two records whose key-field values differ in at least one
\* field of the list get different ids, whenever both ids were generated.
C12_DistinctKeysDistinctIds ==
  \A i \in 1..Len(wr) :
    ( /\ KeyTuple(rows[1], wr[i].keys) # KeyTuple(rows[2], wr[i].keys)
      /\ wr[i].id1 # None
      /\ wr[i].id2 # None )
    => wr[i].id1 # wr[i].id2

\* The value of key field f in record r, a missing field counting as the empty
\* string.
KeyValue(r, f) == IF f \in DOMAIN r THEN r[f] ELSE ""

\* Two records agree on every field of the list.
AgreeOn(r1, r2, keys) ==
  \A j \in 1..Len(keys) : KeyValue(r1, keys[j]) = KeyValue(r2, keys[j])

\* A key field that r carries has a text that cannot be encoded.
HasUnencodable(r, keys) ==
  \E j \in 1..Len(keys) : keys[j] \in DOMAIN r /\ ~Encodable(Str(r[keys[j]]))

\* C27: two records that agree on every field of the key list, a missing field
\* counting as the empty string, get the same id whatever their other fields,
\* and the same again when it is computed a second time; an id is generated
\* unless a key field the record carries cannot be encoded, so a missing field
\* never makes the generation fail.
C27_IdFromKeyFieldsAlone ==
  \A i \in 1..Len(wr) :
    /\ AgreeOn(rows[1], rows[2], wr[i].keys) => wr[i].id1 = wr[i].id2
    /\ wr[i].id1 = None <=> HasUnencodable(rows[1], wr[i].keys)
    /\ wr[i].id2 = None <=> HasUnencodable(rows[2], wr[i].keys)
    /\ \A i2 \in 1..Len(wr) :
         wr[i2].keys = wr[i].keys => wr[i2].id1 = wr[i].id1 /\ wr[i2].id2 = wr[i].id2

\* A record without lineNm and one with an empty lineNm, which differ in
\* mngNo as well, got one and the same id, twice.
C27_Witness ==
  /\ Len(wr) = 2
  /\ wr[1].keys = wr[2].keys
  /\ wr[1].keys = <<"stnCd", "lineNm", "fcltNm">>
  /\ "lineNm" \notin DOMAIN rows[1]
  /\ "mngNo" \notin DOMAIN rows[1]
  /\ "lineNm" \in DOMAIN rows[2] /\ rows[2]["lineNm"] = ""
  /\ "mngNo" \in DOMAIN rows[2]
  /\ wr[2].id1 = wr[2].id2
  /\ wr[2].id1 # None

(***************************************************************************)
(* parse_api_response in the fetch loop of one endpoint: lines 423-447 on  *)
(* envelopes of every shape the upstream may send with a good header.      *)
(***************************************************************************)
\* What a key of the envelope may hold besides the expected value.
EmptyKinds == {"absent", "null", "empty_string", "empty_list", "empty_dict"}
ItemKinds == {"array", "object", "string"} \cup EmptyKinds
ItemsKinds == {"dict", "string"} \cup EmptyKinds
\* Where the body sits: at top level, under response, under response with a
\* null body at top level, or nowhere (the last four).
BodyPlaces == {"top", "nested", "top_null_nested"}
NoBodyPlaces == {"none", "response_without_body", "response_null", "body_string"}

\* The pages an item may hold.
ParsePages == {<<recA1>>, <<recB>>, <<recA1, recB>>, <<recA1, recA2>>}

\* The descriptions of the envelopes: d.where, d.items and d.item say what the
\* envelope holds at each level, d.page the records of item.
ParseEnvelopes ==
  { [where |-> w, items |-> "dict", item |-> it, page |-> pg]
    : w \in BodyPlaces, it \in {"array"}, pg \in ParsePages }
  \cup
  { [where |-> w, items |-> "dict", item |-> it, page |-> pg]
    : w \in BodyPlaces, it \in {"object"}, pg \in {<<recA1>>, <<recB>>} }
  \cup
  { [where |-> w, items |-> "dict", item |-> it, page |-> <<recA1>>]
    : w \in BodyPlaces, it \in ItemKinds \ {"array", "object"} }
  \cup
  { [where |-> w, items |-> its, item |-> "array", page |-> <<recA1>>]
    : w \in BodyPlaces, its \in ItemsKinds \ {"dict"} }
  \cup
  { [where |-> w, items |-> "dict", item |-> "array", page |-> <<recA1>>]
    : w \in NoBodyPlaces }

\* A value of the kind named, x being the value of the expected kind.
OfKind(kind, x) ==
  CASE kind = "null" -> JNull
    [] kind = "empty_string" -> JStr("")
    [] kind = "empty_list" -> JArr(<<>>)
    [] kind = "empty_dict" -> JObj(<<>>)
    [] kind = "string" -> JStr("x")
    [] OTHER -> x

\* The JSON value raw_data of line 419 for a description.
ParseEnvelope(d) ==
  LET h == Header("00")
      other == [totalCount |-> JStr("1")]
      item == IF d.item = "object" THEN JObj(d.page[1])
              ELSE OfKind(d.item, JArr(d.page))
      items == IF d.item = "absent" THEN JObj(other)
               ELSE OfKind(d.items, JObj([item |-> item]))
      body == IF d.items = "absent" THEN JObj(other)
              ELSE JObj([items |-> items])
  IN
  CASE d.where = "top" -> TopLevel(h, body)
    [] d.where = "nested" -> Nested(h, body)
    [] d.where = "top_null_nested" ->
         JObj([header |-> h, body |-> JNull, response |-> JObj([body |-> body])])
    [] d.where = "none" -> JObj([header |-> h])
    [] d.where = "response_without_body" -> JObj([response |-> JObj([header |-> h])])
    [] d.where = "response_null" -> JObj([header |-> h, response |-> JNull])
    [] d.where = "body_string" -> JObj([header |-> h, body |-> JStr("x")])

InitParse ==
  /\ pc = "request"
  /\ BASE_URL = "http://api"
  /\ conn = "open"
  /\ db \in {EmptyDb, PriorDb}
  /\ now = 1
  /\ config_i = 1
  /\ page_no = 1
  /\ rows = <<>>
  /\ total_processed_all = 0
  /\ ret = NoReturn
  /\ db0 = db
  /\ requests = <<>>
  /\ served = [e \in 1..NumEndpoints |-> <<>>]
  /\ http_fail_first = {}
  /\ undelivered = {}
  /\ summary_calls = 0
  /\ summary_fault = "none"
  /\ last_save = NoSave
  /\ committed = [t \in TableNames |-> {}]
  /\ stations = subway_station
  /\ wr = <<>>

\* Lines 412-434 for a response with status 200 and a JSON body: the header
\* check, parse_api_response, and the break on an empty result.  wr keeps the
\* description of the envelope, what parse_api_response returned for it and
\* for the envelope with item wrapped in a list, and the state it was met in.
ParseStep ==
  /\ pc = "request"
  /\ config_i = 1
  /\ page_no <= MaxPageNo
  /\ \E d \in ParseEnvelopes :
       LET raw_data == ParseEnvelope(d)
           delivered == HeaderOk(raw_data)
           parsed == IF delivered THEN parse_api_response(raw_data) ELSE <<>>
       IN
       /\ wr' = << [d |-> d,
                    out |-> parse_api_response(raw_data),
                    wrapped |-> parse_api_response(ParseEnvelope([d EXCEPT !.item = "array"])),
                    raised |-> parse_try(raw_data).raised,
                    config_i |-> config_i,
                    page_no |-> page_no,
                    db |-> db,
                    total |-> total_processed_all,
                    last_save |-> last_save] >>
       /\ requests' = Append(requests, <<config_i, page_no>>)
       /\ undelivered' = IF delivered THEN undelivered ELSE undelivered \cup {config_i}
       /\ served' = IF delivered
                    THEN [served EXCEPT ![config_i] = Append(@, Len(parsed))]
                    ELSE served
       /\ IF Len(parsed) = 0
          THEN BreakLoop /\ rows' = <<>>
          ELSE /\ rows' = parsed
               /\ pc' = "save"
               /\ UNCHANGED <<config_i, page_no>>
  /\ UNCHANGED <<committed, stations, BASE_URL, conn, db, now, total_processed_all, ret, db0,
                 http_fail_first, summary_calls, summary_fault, last_save>>

NextParse == ParseStep \/ Save

SpecParse == InitParse /\ [][NextParse]_vars

\* The envelope holds a body with items, and item is of the kind named.
WithItem(d, kind) == d.where \in BodyPlaces /\ d.items = "dict" /\ d.item = kind

\* C28: for an envelope whose item is a single object parse_api_response
\* returns the one-element sequence of that object, which is what it returns
\* for the envelope with the object wrapped in a one-element array; an item
\* that is a sequence is returned as it is; an item of any other shape gives
\* the empty sequence.
C28_ObjectAsOneElementList ==
  \A i \in 1..Len(wr) :
    LET d == wr[i].d IN
    /\ WithItem(d, "object") =>
         /\ wr[i].out = <<d.page[1]>>
         /\ wr[i].out = wr[i].wrapped
    /\ WithItem(d, "array") => wr[i].out = d.page
    /\ (d.where \in BodyPlaces /\ d.items = "dict" /\ d.item \notin {"object", "array"})
         => wr[i].out = <<>>

\* An envelope nested under response with a single object as item gave the
\* page of that one record, which went on to the writer.
C28_Witness ==
  /\ Len(wr) = 1
  /\ WithItem(wr[1].d, "object")
  /\ wr[1].d.where = "nested"
  /\ wr[1].out = <<recA1>>
  /\ wr[1].wrapped = <<recA1>>
  /\ pc = "save"
  /\ rows = <<recA1>>

\* items or item is missing or empty, or there is no body at top level and
\* none under response.
EmptyOrMissing(d) ==
  \/ d.where \in BodyPlaces /\ d.items \in EmptyKinds
  \/ d.where \in BodyPlaces /\ d.items = "dict" /\ d.item \in EmptyKinds
  \/ d.where \in {"none", "response_without_body"}

\* C29: for an envelope whose items or item is missing or empty, or that has no
\* body at top level and none under response, parse_api_response returns the
\* empty sequence, an exception of the try body being caught; in the fetch
\* loop the page ends the endpoint's loop: nothing is handed to the writer,
\* the tables and the total are what they were, and no further page of the
\* endpoint is requested.
C29_EmptyEnvelopeEndsLoop ==
  \A i \in 1..Len(wr) :
    LET d == wr[i].d IN
    /\ EmptyOrMissing(d) =>
         /\ wr[i].out = <<>>
         /\ LoopEnded(wr[i].config_i)
         /\ pc # "save"
         /\ rows = <<>>
         /\ db = wr[i].db
         /\ total_processed_all = wr[i].total
         /\ last_save = wr[i].last_save
         /\ requests[Len(requests)] = <<wr[i].config_i, wr[i].page_no>>
    /\ wr[i].raised => wr[i].out = <<>>
    /\ d.where \in {"none", "response_without_body"} => wr[i].raised

\* The second page of the endpoint came without a body anywhere, after a full
\* page that was written: the try body raised, the result was empty and the
\* loop ended with the table as the first page left it.
C29_Witness ==
  /\ Len(wr) = 1
  /\ wr[1].d.where = "none"
  /\ wr[1].raised
  /\ wr[1].out = <<>>
  /\ wr[1].page_no = 2
  /\ wr[1].last_save.made
  /\ wr[1].last_save.count = num_of_rows
  /\ config_i > wr[1].config_i \/ ForLoopOver
  /\ db = wr[1].db
  /\ db # db0

(***************************************************************************)
(* The fetch loop of one endpoint with the response of each request kept:  *)
(* lines 401-450 on every response of Responses.                           *)
(***************************************************************************)
\* One request of the first endpoint; wr keeps what requests.get did and the
\* state the request was issued in.
GateStep ==
  /\ pc = "request"
  /\ BASE_URL # None
  /\ config_i = 1
  /\ \E resp \in Responses(page_no) :
       /\ OnResponse(resp)
       /\ wr' = << [resp |-> resp,
                    config_i |-> config_i,
                    page_no |-> page_no,
                    db |-> db,
                    total |-> total_processed_all,
                    last_save |-> last_save] >>

NextGate == GateStep \/ Save

SpecGate == InitParse /\ [][NextGate]_vars

\* The response came with status 200, a JSON body, a header with result code
\* "00" and at least one record.
PassesGate(resp) ==
  /\ resp.kind = "http"
  /\ resp.status_code = 200
  /\ resp.json
  /\ resp.shape \in GoodShapes
  /\ resp.page # <<>>

\* C31: a page is handed to the writer only if its response had status 200,
\* a JSON body, a header with result code "00" and at least one record, and
\* then it is handed over whole; after any other response, one without a
\* header included, the writer is not called, the database, the total and the
\* last write are what they were, and the endpoint's loop has ended.
C31_WriterGate ==
  /\ pc = "save" => wr # <<>>
  /\ \A i \in 1..Len(wr) :
       LET resp == wr[i].resp IN
       /\ pc = "save" => PassesGate(resp) /\ rows = resp.page
       /\ PassesGate(resp) =>
            \/ pc = "save" /\ config_i = wr[i].config_i /\ page_no = wr[i].page_no
            \/ /\ last_save.made
               /\ last_save.config_i = wr[i].config_i
               /\ last_save.page_no = wr[i].page_no
               /\ last_save.len = Len(resp.page)
       /\ ~PassesGate(resp) =>
            /\ pc # "save"
            /\ rows = <<>>
            /\ db = wr[i].db
            /\ total_processed_all = wr[i].total
            /\ last_save = wr[i].last_save
            /\ LoopEnded(wr[i].config_i)
            /\ requests[Len(requests)] = <<wr[i].config_i, wr[i].page_no>>

\* The second page of the endpoint came with status 200 and records but no
\* header, after a full page that was written: the loop ended with the table
\* as the first page left it.
C31_Witness ==
  /\ Len(wr) = 1
  /\ wr[1].resp.shape = "no_header"
  /\ wr[1].resp.status_code = 200
  /\ wr[1].resp.page # <<>>
  /\ wr[1].page_no = 2
  /\ wr[1].last_save.made
  /\ wr[1].last_save.count = num_of_rows
  /\ LoopEnded(1)
  /\ db = wr[1].db
  /\ db # db0
  /\ total_processed_all = num_of_rows

(***************************************************************************)
(* The legacy variant, lambda_function.py: the fetch loop of one endpoint  *)
(* with termination on totalCount (lines 295-341), and after it the loop   *)
(* of api_data_pipeline.py, both against an upstream that holds N records  *)
(* and serves them in pages of num_of_rows.                                *)
(***************************************************************************)
\* The upstream holds at most MaxTotal records.
MaxTotal == num_of_rows * MaxPageNo

\* A JSON number.
JNum(n) == [t |-> "int", v |-> n]

\* The j-th record of the upstream: the station code is j strokes.
RECURSIVE Strokes(_)
Strokes(j) == IF j = 0 THEN "" ELSE "1" \o Strokes(j - 1)
UpstreamRecord(j) ==
  [mngNo |-> "m" \o Strokes(j), stnCd |-> Strokes(j), lineNm |-> "2",
   fcltNm |-> "e", stnNm |-> "seoul", oprtngSitu |-> "M"]

\* lambda_function.py lines 31-47: the first entry of its API_CONFIG, whose
\* primary key is the management number; it has no pk_gen_keys.
legacy_API_CONFIG ==
  << [ endpoint |-> "getWksnElvtr",
       table |-> "subway_elevator",
       pk |-> "mng_no",
       pk_gen_keys |-> <<>>,
       mapping |->
       << <<"mng_no", "mngNo">>,
          <<"stn_cd", "stnCd">>,
          <<"stn_nm", "stnNm">>,
          <<"line_nm", "lineNm">>,
          <<"fclt_nm", "fcltNm">>,
          <<"oprtng_situ", "oprtngSitu">>,
          <<"dtl_pstn", "dtlPstn">>,
          <<"pscp_nope", "pscpNope">>,
          <<"crtr_ymd", "crtrYmd">> >> ] >>

\* Page p of n records served faithfully: the records (p-1)*num_of_rows+1 ..
\* p*num_of_rows that exist.
FaithfulPage(n, p) ==
  LET first == (p - 1) * num_of_rows + 1
      last == IF p * num_of_rows < n THEN p * num_of_rows ELSE n
  IN [i \in 1..(IF last >= first THEN last - first + 1 ELSE 0) |->
        UpstreamRecord(first + i - 1)]

\* The response to the request for page p, as api_data_pipeline.py meets it.
FaithfulResponse(n, place, p) ==
  [kind |-> "http", status_code |-> 200, json |-> TRUE, shape |-> place,
   item |-> "array", page |-> FaithfulPage(n, p)]

\* The JSON body of that response with the totalCount the upstream reports,
\* at top level or nested under "response".
CountedEnvelope(n, reported, place, p) ==
  LET b == JObj([items |-> JObj([item |-> JArr(FaithfulPage(n, p))]),
                 totalCount |-> JNum(reported)])
  IN IF place = "top" THEN TopLevel(Header("00"), b) ELSE Nested(Header("00"), b)

\* lambda_function.py lines 201-221: the body is looked for at top level only;
\* every exception inside is caught and yields [].
legacy_parse_api_response(json_data) ==
  IF json_data.t # "dict" THEN <<>>
  ELSE
  LET body == JGet(json_data, "body") IN
  IF JFalsy(body) THEN <<>>
  ELSE IF body.t # "dict" THEN <<>>
  ELSE
  LET items == JGet(body, "items") IN
  IF JFalsy(items) THEN <<>>
  ELSE IF items.t # "dict" THEN <<>>
  ELSE
  LET item_data == JGet(items, "item") IN
  IF JFalsy(item_data) THEN <<>>
  ELSE IF item_data.t = "dict" THEN <<item_data.v>>
  ELSE IF item_data.t = "list" THEN item_data.v
  ELSE <<>>

\* lambda_function.py lines 313-315: the totalCount of the top-level body, 0
\* when there is none.
legacy_total_count(raw_data) ==
  LET body == JGetOrEmpty(raw_data, "body") IN
  IF "totalCount" \in DOMAIN body.v THEN body.v["totalCount"].v ELSE 0

\* lambda_function.py line 332.
legacy_last_page(page_no_, total_count, rows_) == page_no_ * num_of_rows >= total_count

\* wr holds the state of the legacy run: where it is, its page_no and
\* total_count, the pages it requested and those it handed to the writer, its
\* total and its database, and with them what the upstream holds (n), the
\* totalCount it reports, where its envelope has the body, and the pages
\* api_data_pipeline.py handed to the writer afterwards.
InitLegacy ==
  /\ pc = "request"
  /\ BASE_URL = "http://api"
  /\ conn = "open"
  /\ db = EmptyDb
  /\ now = 1
  /\ config_i = 1
  /\ page_no = 1
  /\ rows = <<>>
  /\ total_processed_all = 0
  /\ ret = NoReturn
  /\ db0 = db
  /\ requests = <<>>
  /\ served = [e \in 1..NumEndpoints |-> <<>>]
  /\ http_fail_first = {}
  /\ undelivered = {}
  /\ summary_calls = 0
  /\ summary_fault = "none"
  /\ last_save = NoSave
  /\ committed = [t \in TableNames |-> {}]
  /\ stations = subway_station
  /\ \E n \in 0..MaxTotal, reported \in 0..MaxTotal, place \in GoodShapes :
       wr = << [pc |-> "request", page_no |-> 1, total_count |-> 0,
                requested |-> <<>>, handed |-> <<>>, total |-> 0,
                db |-> EmptyDb,
                n |-> n, reported |-> reported, place |-> place,
                handed_short |-> <<>>] >>

\* lambda_function.py lines 299-341: one turn of the while loop, from the
\* request to the break or the next page_no.
LegacyPage ==
  /\ wr[1].pc = "request"
  /\ LET L == wr[1]
         cfg == legacy_API_CONFIG[1]
         raw_data == CountedEnvelope(L.n, L.reported, L.place, L.page_no)
         total_count == IF L.page_no = 1 THEN legacy_total_count(raw_data)
                        ELSE L.total_count
         parsed == legacy_parse_api_response(raw_data)
         asked == Append(L.requested, L.page_no)
     IN
     IF (L.page_no = 1 /\ total_count = 0) \/ Len(parsed) = 0
     THEN /\ wr' = << [L EXCEPT !.pc = "done", !.total_count = total_count,
                                !.requested = asked] >>
          /\ UNCHANGED now
     ELSE
       \E fault \in 0..(Len(parsed) + 1) :
         LET res == save_to_db_dynamic(L.db, cfg.table, cfg.pk, cfg.mapping, parsed,
                                       cfg.pk_gen_keys, fault, now)
             last == legacy_last_page(L.page_no, total_count, parsed)
         IN
         /\ now' = now + 1
         /\ wr' = << [L EXCEPT !.pc = IF last THEN "done" ELSE "request",
                               !.page_no = IF last THEN @ ELSE @ + 1,
                               !.total_count = total_count,
                               !.requested = asked,
                               !.handed = Append(@, parsed),
                               !.total = @ + res.count,
                               !.db = res.db] >>
  /\ UNCHANGED <<db, pc, BASE_URL, conn, config_i, page_no, rows, total_processed_all, ret,
                 db0, requests, served, http_fail_first, undelivered, summary_calls,
                 summary_fault, last_save, committed, stations>>

\* api_data_pipeline.py lines 402-434 against the same upstream, once the
\* legacy run is over: one request of the first endpoint and its response.
FaithfulRequest ==
  /\ wr[1].pc = "done"
  /\ pc = "request"
  /\ config_i = 1
  /\ OnResponse(FaithfulResponse(wr[1].n, wr[1].place, page_no))
  /\ wr' = << [wr[1] EXCEPT !.handed_short =
                              IF pc' = "save" THEN Append(@, rows') ELSE @] >>

NextLegacy == LegacyPage \/ FaithfulRequest \/ Save

SpecLegacy == InitLegacy /\ [][NextLegacy]_vars

\* Both loops have ended.
BothLoopsEnded == wr[1].pc = "done" /\ LoopEnded(1)

\* C32 (as claimed): the legacy loop asks for no page after a page p with
\* p*num_of_rows >= totalCount as read from the first page, and writes nothing
\* when that is 0; when the upstream reports totalCount = n and pages
\* faithfully, it hands the writer the same pages as the loop of
\* api_data_pipeline.py, with one request fewer exactly when n is a positive
\* multiple of num_of_rows.
C32_LegacySamePages ==
  /\ \A i \in 1..Len(wr[1].requested) :
       /\ wr[1].requested[i] = i
       /\ i > 1 => (i - 1) * num_of_rows < wr[1].total_count
  /\ (wr[1].pc = "done" /\ wr[1].total_count = 0) =>
       wr[1].handed = <<>> /\ wr[1].total = 0 /\ wr[1].db = EmptyDb
  /\ (BothLoopsEnded /\ wr[1].reported = wr[1].n) =>
       /\ wr[1].handed = wr[1].handed_short
       /\ Len(wr[1].requested) =
            Len(requests) - (IF wr[1].n > 0 /\ wr[1].n % num_of_rows = 0 THEN 1 ELSE 0)

\* The same for envelopes with the body at top level only, where the legacy
\* loop reads the totalCount the upstream reports.
C32_LegacySamePagesTopLevel ==
  /\ \A i \in 1..Len(wr[1].requested) :
       /\ wr[1].requested[i] = i
       /\ i > 1 => (i - 1) * num_of_rows < wr[1].total_count
  /\ (wr[1].pc = "done" /\ wr[1].total_count = 0) =>
       wr[1].handed = <<>> /\ wr[1].total = 0 /\ wr[1].db = EmptyDb
  /\ (BothLoopsEnded /\ wr[1].reported = wr[1].n /\ wr[1].place = "top") =>
       /\ wr[1].handed = wr[1].handed_short
       /\ Len(wr[1].requested) =
            Len(requests) - (IF wr[1].n > 0 /\ wr[1].n % num_of_rows = 0 THEN 1 ELSE 0)

\* A full page and nothing more, reported as such at top level: the legacy
\* loop made one request, the other loop two, and both handed over the one page.
C32_WitnessTopLevel ==
  /\ BothLoopsEnded
  /\ wr[1].place = "top"
  /\ wr[1].n = num_of_rows
  /\ wr[1].reported = num_of_rows
  /\ wr[1].requested = <<1>>
  /\ requests = << <<1, 1>>, <<1, 2>> >>
  /\ wr[1].handed = <<FaithfulPage(num_of_rows, 1)>>
  /\ wr[1].handed_short = wr[1].handed

====
